---- MODULE Spec2Model ----
(***************************************************************************)
(* Model of the safety assessment engine of therapeutic_agent and of the   *)
(* session manager that calls it:                                          *)
(*   safety/validators.py    - the four rule-based validators              *)
(*   safety/engine.py        - SafetyEngine.validate_content, the merge    *)
(*                             and validate_conversation_context           *)
(*   core/session_manager.py - create_session, send_message, end_session   *)
(*   storage/repository.py   - the statements the manager runs             *)
(*   api/main.py             - the exception handler and POST /sessions     *)
(*                                                                         *)
(* Specifications.  Spec: one engine, calls to validate_content with the   *)
(* validators returning or raising in any order.  SpecAggregate: the merge *)
(* on lists of verdicts.  SpecRepeat: repeated calls, the last one         *)
(* remembered.  SpecConversation: validate_conversation_context.           *)
(* SpecSession: requests to the session manager over a stored session,     *)
(* served two at a time, each request one step per awaited statement.      *)
(* SpecLimit: create_session and end_session on an empty store.            *)
(* SpecLifecycle: the requests of SpecSession over a session of two        *)
(* exchanges.  SpecScore: the same over a new session or a session with    *)
(* one safety event.  A statement of a request takes effect on the store   *)
(* when it runs.                                                           *)
(*                                                                         *)
(* Text.  A content string is a sequence of tokens.  A token is either a   *)
(* maximal run of word characters (a word, written as a string), the       *)
(* whitespace character SP, or the hyphen HY.  Two word tokens next to     *)
(* each other therefore spell ONE longer word ("kill" "myself" is          *)
(* "killmyself"), and \b holds only at the ends of the text and next to    *)
(* SP or HY.  Words that carry an apostrophe ("can't", "what's") are kept  *)
(* as one token.  The words of the enumerated contents are chosen so that  *)
(* no two of them spell, side by side, a word of a pattern or a keyword    *)
(* ("my" "self"); on such texts the matching operators below agree with    *)
(* Python's re and str on every text of the enumerated vocabularies.       *)
(*                                                                         *)
(* Numbers.  A confidence is an integer number of 1/6000ths, so that the   *)
(* mean of up to six confidences that are multiples of 0.01 is exact.      *)
(***************************************************************************)
EXTENDS Integers, Sequences, FiniteSets, TLC

\* ------------------------------------------------------------------ bounds
\* longest enumerated content, in tokens
MaxLen == 3
\* longest pool handed to _aggregate_results in SpecAggregate
MaxPool == 3

\* the longest run of recent turns enumerated for a conversation
MaxRecent == 2

\* the number of messages the session manager accepts, and the number of
\* sessions it is asked to create beyond the limit
MaxOps == 1

\* the setting security.max_sessions_per_user (1 to 20, 5 when unset)
max_sessions_per_user == 2

\* ------------------------------------------------------------------ numbers
\* n hundredths, in model units (0.01 is 60 units, 1.0 is 6000)
Pct(n) == n * 60

Min(a, b) == IF a <= b THEN a ELSE b

Max(a, b) == IF a >= b THEN a ELSE b

RECURSIVE SeqSum(_)
SeqSum(s) == IF s = <<>> THEN 0 ELSE Head(s) + SeqSum(Tail(s))

RECURSIVE SeqMax(_)
SeqMax(s) == IF Len(s) = 1 THEN s[1] ELSE Max(Head(s), SeqMax(Tail(s)))

\* ------------------------------------------------------------------ text
SP == " "

HY == "-"

NonWord == {SP, HY}

\* str.lower() / re.IGNORECASE on one token
Lower(t) ==
  CASE t = "I" -> "i"
    [] t = "Kill" -> "kill"
    [] t = "CUT" -> "cut"
    [] OTHER -> t

\* leading / trailing whitespace dropped
RECURSIVE LStrip(_)
LStrip(c) == IF c # <<>> /\ Head(c) = SP THEN LStrip(Tail(c)) ELSE c

RECURSIVE RStrip(_)
RStrip(c) ==
  IF c # <<>> /\ c[Len(c)] = SP THEN RStrip(SubSeq(c, 1, Len(c) - 1)) ELSE c

\* variant: the content is tested as it is, without strip()
NoStrip(c) == c

\* content.strip()
Strip(c) == RStrip(LStrip(c))

\* the words of a sentence separated by single spaces
RECURSIVE Sentence(_)
Sentence(ws) ==
  IF Len(ws) <= 1 THEN ws ELSE <<Head(ws), SP>> \o Sentence(Tail(ws))

\* \b before position p / after position q
WordStart(c, p) == p = 1 \/ c[p - 1] \in NonWord

WordEnd(c, q) == q = Len(c) \/ c[q + 1] \in NonWord

\* A phrase is a sequence of word sets; consecutive words are separated by
\* \s+ (one or more SP).  PhraseEnds is the set of positions at which a match
\* of the phrase that starts at p can end.
RECURSIVE PhraseEnds(_, _, _)
PhraseEnds(c, p, ph) ==
  IF p > Len(c) \/ c[p] \in NonWord \/ ~(Lower(c[p]) \in Head(ph)) THEN {}
  ELSE IF Len(ph) = 1 THEN {p}
  ELSE UNION { PhraseEnds(c, q, Tail(ph)) :
                 q \in { r \in (p + 2)..Len(c) :
                           \A j \in (p + 1)..(r - 1) : c[j] = SP } }

\* positions at which a \b-delimited match of one of the phrases can end
\* when it starts at or after position from
BoundedEnds(c, phrases, from) ==
  UNION { { q \in PhraseEnds(c, p, ph) : WordEnd(c, q) } :
            p \in { r \in from..Len(c) : WordStart(c, r) }, ph \in phrases }

\* the words \w+ can match
AnyWord ==
  { "i", "accidentally", "cut", "myself", "while", "cooking", "want", "to",
    "kill", "and", "end", "this", "pain", "need", "you", "tell", "me", "what",
    "medication", "take", "hurt", "address", "suicide", "my", "arm", "self",
    "harm", "overdosed", "skill", "phone", "number", "life", "keep",
    "thinking", "about", "ending", "it", "all", "feel", "down", "more" }

\* A pattern is a record:
\*   head - phrases matched between two \b
\*   open - phrases that begin with \b and end in \w+ (any word), where the
\*          closing \b always holds at the end of the run of word characters
\*   tail - phrases that must follow a head match after ".*" ({} when the
\*          pattern has no such part)
Pat(head, open, tail) == [head |-> head, open |-> open, tail |-> tail]

\* pattern.search(content) is not None
Search(pat, c) ==
  \/ /\ pat.tail = {}
     /\ BoundedEnds(c, pat.head, 1) # {}
  \/ /\ pat.tail # {}
     /\ \E q \in BoundedEnds(c, pat.head, 1) :
          BoundedEnds(c, pat.tail, q + 1) # {}
  \/ \E ph \in pat.open : \E p \in 1..Len(c) :
       WordStart(c, p) /\ PhraseEnds(c, p, ph) # {}

\* sum(1 for pattern in patterns if pattern.search(content))
CountMatches(pats, c) ==
  Cardinality({ i \in 1..Len(pats) : Search(pats[i], c) })

\* keyword words that are a suffix / a prefix / a substring of a token
SuffixesOf(t) ==
  CASE t = "skill" -> {"skill", "kill"}
    [] OTHER -> {t}

PrefixesOf(t) ==
  CASE t = "overdosed" -> {"overdosed", "overdose"}
    [] t = "accidentally" -> {"accidentally", "accident"}
    [] OTHER -> {t}

InfixesOf(t) == SuffixesOf(t) \cup PrefixesOf(t)

\* keyword in content_lower, for a keyword given as its words, which are
\* separated by exactly one space
KeywordIn(kw, c) ==
  LET n == Len(kw) IN
  \E p \in 1..Len(c) :
    /\ p + 2 * (n - 1) <= Len(c)
    /\ \A k \in 1..n :
         LET t == Lower(c[p + 2 * (k - 1)]) IN
           /\ ~(t \in NonWord)
           /\ IF n = 1 THEN kw[k] \in InfixesOf(t)
              ELSE IF k = 1 THEN kw[k] \in SuffixesOf(t)
              ELSE IF k = n THEN kw[k] \in PrefixesOf(t)
              ELSE kw[k] = t
    /\ \A k \in 1..(n - 1) : c[p + 2 * k - 1] = SP

\* ------------------------------------------------------------------ verdicts
NoneVal == "None"

\* SafetyLevel
SAFE == "safe"

CAUTION == "caution"

WARNING == "warning"

CRITICAL == "critical"

\* SafetyCategory
CRISIS == "crisis"

SELF_HARM == "self_harm"

MEDICAL_ADVICE == "medical_advice"

THERAPEUTIC_BOUNDARY == "therapeutic_boundary"

SafetyCategory ==
  { CRISIS, SELF_HARM, "substance_abuse", "inappropriate_request",
    MEDICAL_ADVICE, "personal_info", THERAPEUTIC_BOUNDARY }

\* the dataclass SafetyResult.  An explanation is the sequence of its parts,
\* where the parts of a joined explanation are separated by "; "; the empty
\* string is <<>>.
SafetyResult(is_safe, level, category, confidence, explanation, suggested) ==
  [ is_safe |-> is_safe, level |-> level, category |-> category,
    confidence |-> confidence, explanation |-> explanation,
    suggested_response |-> suggested ]

\* ------------------------------------------------------------------ crisis
CRISIS_PATTERNS ==
  << Pat({ << {"kill", "killing", "hurt", "hurting", "harm", "harming"},
              {"myself", "me"} >> }, {}, {}),
     Pat({ << {"suicide", "suicidal"} >>,
           << {"end", "ending"}, {"life"} >>,
           << {"end", "ending"}, {"my"}, {"life"} >> }, {}, {}),
     Pat({ << {"end", "ending"}, {"it"} >>,
           << {"end", "ending"}, {"it"}, {"all"} >> }, {}, {}),
     Pat({ << {"want"}, {"to"}, {"die"} >>,
           << {"wish"}, {"i"}, {"was"}, {"dead"} >>,
           << {"better"}, {"off"}, {"dead"} >> }, {}, {}),
     Pat({ << {"overdose"} >>,
           << {"pill", "pills"}, {"to"}, {"die", "end"} >> }, {}, {}),
     Pat({ << {"plan"}, {"to"}, {"kill", "hurt", "harm"} >>,
           << {"have"}, {"a"}, {"plan"} >> }, {}, {}),
     Pat({ << {"can't", "cant"}, {"go"}, {"on"} >>,
           << {"can't", "cant"}, {"take"}, {"it"} >>,
           << {"can't", "cant"}, {"live"} >>,
           << {"no"}, {"point"}, {"in"}, {"living"} >> }, {}, {}) >>

CRISIS_KEYWORDS ==
  { <<"suicide">>, <<"suicidal">>, <<"kill", "myself">>,
    <<"end", "my", "life">>, <<"want", "to", "die">>, <<"overdose">>,
    <<"pills", "to", "die">>, <<"hurt", "myself">>, <<"harm", "myself">>,
    <<"cut", "myself">> }

\* variant: only the patterns are counted, the keywords are not
pattern_matches_only(content) == CountMatches(CRISIS_PATTERNS, content)

\* pattern_matches + keyword_matches
total_indicators(content) ==
  CountMatches(CRISIS_PATTERNS, content)
    + Cardinality({ kw \in CRISIS_KEYWORDS : KeywordIn(kw, content) })

\* variant: the confidence of a critical verdict is not capped
crisis_confidence_uncapped(n) == Pct(40) + n * Pct(15)

\* min(0.9, 0.4 + (total_indicators * 0.15))
crisis_confidence(n) == Min(Pct(90), Pct(40) + n * Pct(15))

\* variant: a single indicator is reported as safe, category kept
CrisisValidator_single_safe(content, context) ==
  LET n == total_indicators(content) IN
  IF n >= 2 THEN
    SafetyResult(FALSE, CRITICAL, CRISIS, crisis_confidence(n),
      <<"Multiple crisis indicators detected requiring immediate intervention">>,
      "I'm very concerned about what you've shared. ... 988 ... 911.")
  ELSE IF n = 1 THEN
    SafetyResult(TRUE, WARNING, CRISIS, Pct(70),
      <<"Potential crisis indicator detected">>,
      "I'm concerned about what you've mentioned. ... Lifeline at 988 for support.")
  ELSE
    SafetyResult(TRUE, SAFE, NoneVal, Pct(80),
      <<"No crisis indicators detected">>, NoneVal)

CrisisValidator(content, context) ==
  LET n == total_indicators(content) IN
  IF n >= 2 THEN
    SafetyResult(FALSE, CRITICAL, CRISIS, crisis_confidence(n),
      <<"Multiple crisis indicators detected requiring immediate intervention">>,
      "I'm very concerned about what you've shared. ... 988 ... 911.")
  ELSE IF n = 1 THEN
    SafetyResult(FALSE, WARNING, CRISIS, Pct(70),
      <<"Potential crisis indicator detected">>,
      "I'm concerned about what you've mentioned. ... Lifeline at 988 for support.")
  ELSE
    SafetyResult(TRUE, SAFE, NoneVal, Pct(80),
      <<"No crisis indicators detected">>, NoneVal)

\* ------------------------------------------------------------------ self-harm
\* r"\b(?:self[-\s]?harm|self[-\s]?injur)": no closing \b, so any word that
\* begins with harm / injur completes it
HarmInjurWords == {"harm", "harming", "harmful", "injury", "injuries", "injure"}

SelfHarmTerm(c) ==
  \E p \in 1..Len(c) :
    /\ WordStart(c, p)
    /\ Lower(c[p]) = "self"
    /\ \/ p + 1 <= Len(c) /\ Lower(c[p + 1]) \in HarmInjurWords
       \/ p + 2 <= Len(c) /\ c[p + 1] \in {SP, HY}
                          /\ Lower(c[p + 2]) \in HarmInjurWords

SELF_HARM_PATTERNS ==
  << Pat({ << {"cut", "cutting", "scratch", "scratching", "burn", "burning"},
              {"myself", "me"} >> },
         { << {"cut", "cutting", "scratch", "scratching", "burn", "burning"},
              {"my"}, AnyWord >> }, {}),
     Pat({ << {"razor", "blade", "knife"}, {"on", "to"}, {"myself"} >> },
         { << {"razor", "blade", "knife"}, {"on", "to"}, {"my"}, AnyWord >> },
         {}),
     Pat({ << {"hurt"}, {"myself"} >>, << {"inflict"}, {"pain"} >> }, {}, {}) >>

accidental_keywords ==
  { <<"accidentally">>, <<"accident">>, <<"cooking">>, <<"shaving">>,
    <<"working">> }

\* variant: the accidental context is never recognised
is_accidental_never(content) == FALSE

is_accidental(content) ==
  \E kw \in accidental_keywords : KeywordIn(kw, content)

self_harm_matches(content) ==
  CountMatches(SELF_HARM_PATTERNS, content)
    + (IF SelfHarmTerm(content) THEN 1 ELSE 0)

SelfHarmValidator(content, context) ==
  IF self_harm_matches(content) >= 1 /\ ~is_accidental(content) THEN
    SafetyResult(FALSE, WARNING, SELF_HARM, Pct(80),
      <<"Self-harm behavior indicators detected">>,
      "I'm concerned about the self-harm behaviors you've mentioned. ...")
  ELSE
    SafetyResult(TRUE, SAFE, NoneVal, Pct(90),
      <<"No self-harm indicators detected">>, NoneVal)

\* ------------------------------------------------------------------ medical
MEDICAL_PATTERNS ==
  << Pat({ << {"diagnose", "diagnosis"} >>,
           << {"what"}, {"do"}, {"i"} >>,
           << {"what's"}, {"wrong"} >> }, {},
         { << {"symptom", "symptoms", "condition", "disease", "disorder"} >> }),
     Pat({ << {"should"}, {"i"}, {"take"} >>,
           << {"recommend", "recommendation", "prescribe", "medication",
                "medicine", "drug"} >> }, {}, {}),
     Pat({ << {"doctor", "physician", "medical", "health"},
              {"advice", "opinion", "recommendation"} >> }, {}, {}),
     Pat({ << {"treatment"}, {"for"} >>, << {"cure"}, {"for"} >>,
           << {"how"}, {"to"}, {"treat"} >> }, {}, {}) >>

\* variant: a medical-advice verdict carries the confidence 0.6
MedicalAdviceValidator_lower_confidence(content, context) ==
  IF CountMatches(MEDICAL_PATTERNS, content) >= 1 THEN
    SafetyResult(FALSE, CAUTION, MEDICAL_ADVICE, Pct(60),
      <<"Request for medical advice detected">>,
      "I understand you're looking for guidance, but I can't provide medical advice ...")
  ELSE
    SafetyResult(TRUE, SAFE, NoneVal, Pct(80),
      <<"No inappropriate medical advice requests detected">>, NoneVal)

MedicalAdviceValidator(content, context) ==
  IF CountMatches(MEDICAL_PATTERNS, content) >= 1 THEN
    SafetyResult(FALSE, CAUTION, MEDICAL_ADVICE, Pct(70),
      <<"Request for medical advice detected">>,
      "I understand you're looking for guidance, but I can't provide medical advice ...")
  ELSE
    SafetyResult(TRUE, SAFE, NoneVal, Pct(80),
      <<"No inappropriate medical advice requests detected">>, NoneVal)

\* ------------------------------------------------------------------ boundary
BOUNDARY_PATTERNS ==
  << Pat({ << {"can"}, {"we"}, {"meet"} >>,
           << {"can"}, {"we"}, {"be"}, {"friends"} >>,
           << {"personal"}, {"relationship", "contact"} >> }, {}, {}),
     Pat({ << {"outside"}, {"of"}, {"therapy", "session"} >>,
           << {"real"}, {"life"} >>, << {"in"}, {"person"} >> }, {}, {}),
     Pat({ << {"phone"}, {"number"} >>, << {"address"} >>,
           << {"where"}, {"do"}, {"you"}, {"live"} >>,
           << {"personal"}, {"info"} >> }, {}, {}),
     Pat({ << {"date", "romantic", "sexual", "intimate"} >> }, {},
         { << {"relationship", "feelings"} >> }) >>

TherapeuticBoundaryValidator(content, context) ==
  IF CountMatches(BOUNDARY_PATTERNS, content) >= 1 THEN
    SafetyResult(FALSE, CAUTION, THERAPEUTIC_BOUNDARY, Pct(60),
      <<"Therapeutic boundary concerns detected">>,
      "I appreciate your trust in our therapeutic relationship. ...")
  ELSE
    SafetyResult(TRUE, SAFE, NoneVal, Pct(90),
      <<"No boundary concerns detected">>, NoneVal)

\* ------------------------------------------------------------------ engine
\* SafetyEngine.__init__: the validators in registration order
validators ==
  << "CrisisValidator", "SelfHarmValidator", "MedicalAdviceValidator",
     "TherapeuticBoundaryValidator" >>

\* variant: a validator that is handed a context lets the content pass
validate_heeding_context(i, content, context) ==
  IF context # NoneVal
    THEN SafetyResult(TRUE, SAFE, NoneVal, Pct(90),
           <<"Content accepted in context">>, NoneVal)
    ELSE CASE validators[i] = "CrisisValidator" ->
                CrisisValidator(content, context)
           [] validators[i] = "SelfHarmValidator" ->
                SelfHarmValidator(content, context)
           [] validators[i] = "MedicalAdviceValidator" ->
                MedicalAdviceValidator(content, context)
           [] validators[i] = "TherapeuticBoundaryValidator" ->
                TherapeuticBoundaryValidator(content, context)

\* validator.validate(content, context) of the i-th registered validator
validate(i, content, context) ==
  CASE validators[i] = "CrisisValidator" -> CrisisValidator(content, context)
    [] validators[i] = "SelfHarmValidator" ->
         SelfHarmValidator(content, context)
    [] validators[i] = "MedicalAdviceValidator" ->
         MedicalAdviceValidator(content, context)
    [] validators[i] = "TherapeuticBoundaryValidator" ->
         TherapeuticBoundaryValidator(content, context)

\* an entry of the list gather returns: not yet there, an exception object,
\* or a SafetyResult
Pending == [state |-> "pending"]

Raised == [state |-> "exception"]

\* no SafetyResult returned (yet)
NoVerdict == [state |-> "none"]

_level_priority(level) ==
  CASE level = SAFE -> 0
    [] level = CAUTION -> 1
    [] level = WARNING -> 2
    [] level = CRITICAL -> 3
    [] OTHER -> 0

\* (a1, a2) <= (b1, b2) on tuples, as Python compares the max() keys
KeyLeq(a, b) == a[1] < b[1] \/ (a[1] = b[1] /\ a[2] <= b[2])

CriticalKey(r) == << _level_priority(r.level), r.confidence >>

\* variant: the key of max() is the confidence alone
most_critical_by_confidence(unsafe_results) ==
  LET best == { i \in 1..Len(unsafe_results) :
                  \A j \in 1..Len(unsafe_results) :
                    unsafe_results[j].confidence
                      <= unsafe_results[i].confidence }
      first == CHOOSE i \in best : \A j \in best : i <= j
  IN unsafe_results[first]

\* max(unsafe_results, key=...): the first element whose key is maximal
most_critical_of(unsafe_results) ==
  LET best == { i \in 1..Len(unsafe_results) :
                  \A j \in 1..Len(unsafe_results) :
                    KeyLeq(CriticalKey(unsafe_results[j]),
                           CriticalKey(unsafe_results[i])) }
      first == CHOOSE i \in best : \A j \in best : i <= j
  IN unsafe_results[first]

Confidences(rs) == [i \in 1..Len(rs) |-> rs[i].confidence]

\* variant: the confidence of the first result instead of the greatest
first_confidence_of(rs) == rs[1].confidence

\* max(r.confidence for r in results)
highest_confidence_of(rs) == SeqMax(Confidences(rs))

\* variant: the selected result's own confidence, whatever else matches
own_confidence_of(unsafe_results, most_critical) == most_critical.confidence

\* avg_confidence for the most critical category
avg_confidence_of(unsafe_results, most_critical) ==
  LET matching_results ==
        SelectSeq(unsafe_results,
                  LAMBDA r : r.category = most_critical.category)
  IN IF matching_results # <<>>
       THEN SeqSum(Confidences(matching_results)) \div Len(matching_results)
       ELSE most_critical.confidence

confidence_boost_of(unsafe_results) ==
  Min(Pct(15), Pct(5) * (Len(unsafe_results) - 1))

\* variant: the sum of average and boost is not capped at 0.95
uncapped_confidence_of(unsafe_results, most_critical) ==
  avg_confidence_of(unsafe_results, most_critical)
    + confidence_boost_of(unsafe_results)

aggregated_confidence_of(unsafe_results, most_critical) ==
  Min(Pct(95), avg_confidence_of(unsafe_results, most_critical)
                 + confidence_boost_of(unsafe_results))

RECURSIVE Flatten(_)
Flatten(ss) == IF ss = <<>> THEN <<>> ELSE Head(ss) \o Flatten(Tail(ss))

\* variant: the explanations are taken most critical first
explanation_by_severity_of(unsafe_results) ==
  LET most_critical == most_critical_of(unsafe_results)
      others == SelectSeq(unsafe_results, LAMBDA r : r # most_critical)
      explanations ==
        SelectSeq([i \in 1..(1 + Len(others)) |->
                     IF i = 1 THEN most_critical.explanation
                     ELSE others[i - 1].explanation],
                  LAMBDA e : e # <<>>)
  IN Flatten(SubSeq(explanations, 1, Min(3, Len(explanations))))

\* variant: the last three explanations are kept instead of the first three
combined_explanation_last_three(unsafe_results) ==
  LET explanations ==
        SelectSeq([i \in 1..Len(unsafe_results) |->
                     unsafe_results[i].explanation],
                  LAMBDA e : e # <<>>)
      n == Len(explanations)
  IN Flatten(SubSeq(explanations, IF n > 3 THEN n - 2 ELSE 1, n))

\* "; ".join(explanations[:3])
combined_explanation_of(unsafe_results) ==
  LET explanations ==
        SelectSeq([i \in 1..Len(unsafe_results) |->
                     unsafe_results[i].explanation],
                  LAMBDA e : e # <<>>)
  IN Flatten(SubSeq(explanations, 1, Min(3, Len(explanations))))

\* variant: the merge does not carry the category over
_aggregate_results_no_category(rs) ==
  LET unsafe_results == SelectSeq(rs, LAMBDA r : ~r.is_safe) IN
  IF unsafe_results = <<>> THEN
    SafetyResult(TRUE, SAFE, NoneVal, highest_confidence_of(rs),
                 <<"Content passed all safety validations">>, NoneVal)
  ELSE
    LET most_critical == most_critical_of(unsafe_results) IN
    SafetyResult(FALSE, most_critical.level, NoneVal,
                 aggregated_confidence_of(unsafe_results, most_critical),
                 combined_explanation_of(unsafe_results),
                 most_critical.suggested_response)

_aggregate_results(rs) ==
  LET unsafe_results == SelectSeq(rs, LAMBDA r : ~r.is_safe) IN
  IF unsafe_results = <<>> THEN
    SafetyResult(TRUE, SAFE, NoneVal, highest_confidence_of(rs),
                 <<"Content passed all safety validations">>, NoneVal)
  ELSE
    LET most_critical == most_critical_of(unsafe_results) IN
    SafetyResult(FALSE, most_critical.level, most_critical.category,
                 aggregated_confidence_of(unsafe_results, most_critical),
                 combined_explanation_of(unsafe_results),
                 most_critical.suggested_response)

EmptyContentResult ==
  SafetyResult(TRUE, SAFE, NoneVal, Pct(100), <<"Empty content is safe">>,
               NoneVal)

\* variant: total failure of the validators is reported as safe
ValidationFailedResult_safe ==
  SafetyResult(TRUE, SAFE, NoneVal, Pct(10),
               <<"Safety validation failed - unable to assess content">>,
               NoneVal)

ValidationFailedResult ==
  SafetyResult(FALSE, WARNING, NoneVal, Pct(10),
               <<"Safety validation failed - unable to assess content">>,
               NoneVal)

\* variant: the first exception ends the collection of results
RECURSIVE valid_results_until_exception(_)
valid_results_until_exception(rs) ==
  IF rs = <<>> \/ Head(rs) = Raised THEN <<>>
  ELSE <<Head(rs)>> \o valid_results_until_exception(Tail(rs))

\* the results of gather that are not exceptions, in registration order
valid_results_of(rs) == SelectSeq(rs, LAMBDA r : r # Raised)

\* ------------------------------------------------------------------ state
VARIABLES
  pc,        \* where the call is: "idle", "gather", "done"; in SpecAggregate
             \* "aggregate", "aggregated"
  content,   \* the content argument of the running call
  context,   \* the context argument of the running call
  invoked,   \* the registered validators whose validate() the call invoked
  results,   \* the list gather fills; in SpecAggregate the list handed to
             \* _aggregate_results
  verdict,   \* the SafetyResult the call returned
  messages,  \* the conversation handed to validate_conversation_context
  earlier,   \* in SpecRepeat: an earlier call on the same engine, as
             \* [content, failed, verdict], or NoCall
  sessions,       \* the stored sessions with their messages, by session id
  safety_events,  \* the stored safety events
  requests,       \* the request each slot of the session manager serves
  started         \* the number of requests sent to the session manager

\* what the callers of validate_content hold
callerVars == << messages, earlier >>

engineVars == << pc, content, context, invoked, results, verdict, messages,
                 earlier >>

managerVars == << sessions, safety_events, requests, started >>

vars == << pc, content, context, invoked, results, verdict, messages,
           earlier, sessions, safety_events, requests, started >>

\* ------------------------------------------------------------------ inputs
SeqsUpTo(S, n) == UNION { [1..k -> S] : k \in 0..n }

EnumVocab == {SP, "kill", "myself", "cut", "medication"}

MsgAccidentalCut ==
  Sentence(<<"I", "accidentally", "cut", "myself", "while", "cooking">>)

MsgKillMyself ==
  Sentence(<<"I", "want", "to", "kill", "myself", "and", "end", "this",
             "pain">>)

MsgKillAndMedication ==
  Sentence(<<"I", "want", "to", "kill", "myself", "and", "need", "you", "to",
             "tell", "me", "what", "medication", "to", "take">>)

MsgAllFour ==
  Sentence(<<"hurt", "myself", "medication", "address">>)

MsgManyIndicators ==
  Sentence(<<"Kill", "myself", "suicide", "medication", "phone", "number">>)

MsgThreeIndicators ==
  Sentence(<<"kill", "myself", "cut", "myself">>)

Scenarios ==
  { MsgAccidentalCut, MsgKillMyself, MsgKillAndMedication, MsgAllFour,
    MsgManyIndicators, MsgThreeIndicators }

Contents == Scenarios \cup SeqsUpTo(EnumVocab, MaxLen)

Contexts == { NoneVal, "ctx" }

\* ------------------------------------------------------------------ actions
NoCall == [state |-> "no call"]

EngineInit ==
  /\ pc = "idle"
  /\ content = <<>>
  /\ context = NoneVal
  /\ invoked = {}
  /\ results = <<>>
  /\ verdict = NoVerdict
  /\ messages = <<>>
  /\ earlier = NoCall

\* no session manager at work
NoManager ==
  /\ sessions = <<>>
  /\ safety_events = <<>>
  /\ requests = <<>>
  /\ started = 0

Init == EngineInit /\ NoManager

\* validate_content up to the await: the empty-content return, or the
\* creation of one validation task per registered validator
validate_content_starts(c, ctx) ==
  /\ content' = c
  /\ context' = ctx
  /\ IF Strip(c) = <<>>
       THEN /\ verdict' = EmptyContentResult
            /\ pc' = "done"
            /\ invoked' = {}
            /\ results' = <<>>
       ELSE /\ verdict' = NoVerdict
            /\ pc' = "gather"
            /\ invoked' = 1..Len(validators)
            /\ results' = [i \in 1..Len(validators) |-> Pending]

\* a caller hands a message to validate_content
ValidateContent(c, ctx) ==
  /\ pc = "idle"
  /\ validate_content_starts(c, ctx)
  /\ UNCHANGED callerVars
  /\ UNCHANGED managerVars

\* variant: outcomes are collected in the order in which the tasks finish
store_in_completion_order(rs, i, r) ==
  LET first == CHOOSE k \in DOMAIN rs :
                 rs[k] = Pending /\ \A j \in DOMAIN rs : rs[j] = Pending => k <= j
  IN [rs EXCEPT ![first] = r]

\* gather puts the outcome of the i-th task at position i of its list,
\* whenever the task finishes
store_result(rs, i, r) == [rs EXCEPT ![i] = r]

\* the i-th validation task returns its SafetyResult
ValidatorReturns(i) ==
  /\ pc = "gather"
  /\ results[i] = Pending
  /\ results' = store_result(results, i, validate(i, content, context))
  /\ UNCHANGED << pc, content, context, invoked, verdict >>
  /\ UNCHANGED callerVars
  /\ UNCHANGED managerVars

\* the i-th validation task raises; gather(return_exceptions=True) keeps the
\* exception as the task's result
ValidatorRaises(i) ==
  /\ pc = "gather"
  /\ results[i] = Pending
  /\ results' = store_result(results, i, Raised)
  /\ UNCHANGED << pc, content, context, invoked, verdict >>
  /\ UNCHANGED callerVars
  /\ UNCHANGED managerVars

\* validate_content after the await: gather has every task's outcome
GatherDone ==
  /\ pc = "gather"
  /\ \A i \in 1..Len(results) : results[i] # Pending
  /\ LET valid_results == valid_results_of(results) IN
       verdict' = IF valid_results = <<>> THEN ValidationFailedResult
                  ELSE _aggregate_results(valid_results)
  /\ pc' = "done"
  /\ UNCHANGED << content, context, invoked, results >>
  /\ UNCHANGED callerVars
  /\ UNCHANGED managerVars

\* the caller has the verdict; the engine keeps nothing of the call
engine_returns ==
  /\ pc = "done"
  /\ pc' = "idle"
  /\ content' = <<>>
  /\ context' = NoneVal
  /\ invoked' = {}
  /\ results' = <<>>
  /\ verdict' = NoVerdict
  /\ messages' = <<>>
  /\ UNCHANGED managerVars

Return ==
  /\ engine_returns
  /\ UNCHANGED earlier

\* the caller keeps the call and its verdict, and calls again later
ReturnRemembered ==
  /\ engine_returns
  /\ earlier' = [content |-> content, context |-> context,
                 failed |-> { i \in DOMAIN results : results[i] = Raised },
                 verdict |-> verdict]

Next ==
  \/ \E c \in Contents, ctx \in Contexts : ValidateContent(c, ctx)
  \/ \E i \in 1..Len(validators) : ValidatorReturns(i)
  \/ \E i \in 1..Len(validators) : ValidatorRaises(i)
  \/ GatherDone
  \/ Return

Spec == Init /\ [][Next]_vars

\* ------------------------------------------------------------------
\* _aggregate_results as a function of an arbitrary list of results
UnsafeResults ==
  { SafetyResult(FALSE, l, c, k, <<c>>, l) :
      l \in {CAUTION, WARNING, CRITICAL}, c \in {CRISIS, MEDICAL_ADVICE},
      k \in {Pct(60), Pct(70), Pct(90)} }

SafeResults ==
  { SafetyResult(TRUE, SAFE, NoneVal, k, <<"safe">>, NoneVal) :
      k \in {Pct(80), Pct(90)} }

Pools == SeqsUpTo(UnsafeResults \cup SafeResults, MaxPool) \ {<<>>}

InitAggregate ==
  /\ pc = "aggregate"
  /\ content = <<>>
  /\ context = NoneVal
  /\ invoked = {}
  /\ results \in Pools
  /\ verdict = NoVerdict
  /\ messages = <<>>
  /\ earlier = NoCall
  /\ NoManager

AggregateResults ==
  /\ pc = "aggregate"
  /\ verdict' = _aggregate_results(results)
  /\ pc' = "aggregated"
  /\ UNCHANGED << content, context, invoked, results >>
  /\ UNCHANGED callerVars
  /\ UNCHANGED managerVars

NextAggregate == AggregateResults

SpecAggregate == InitAggregate /\ [][NextAggregate]_vars

\* ------------------------------------------------------- conversations
\* msg.get("role") and msg.get("content", "") of a turn
\* variant: every turn counts as a user turn
role_always_user(msg) == "user"

role_of(msg) == IF "role" \in DOMAIN msg THEN msg.role ELSE NoneVal

content_of(msg) == IF "content" \in DOMAIN msg THEN msg.content ELSE <<>>

\* " ".join(parts)
RECURSIVE Join(_)
Join(parts) ==
  IF parts = <<>> THEN <<>>
  ELSE IF Len(parts) = 1 THEN Head(parts)
  ELSE Head(parts) \o <<SP>> \o Join(Tail(parts))

\* the number of most recent turns validate_conversation_context looks at
ContextWindow == 10

\* variant: the first turns of the conversation
first_messages_of(msgs) == SubSeq(msgs, 1, Min(Len(msgs), ContextWindow))

\* messages[-10:]
last_messages_of(msgs) ==
  SubSeq(msgs, Max(1, Len(msgs) - ContextWindow + 1), Len(msgs))

RECURSIVE user_contents_of(_)
\* the contents of the turns whose role is "user", in order
user_contents_of(msgs) ==
  IF msgs = <<>> THEN <<>>
  ELSE (IF role_of(Head(msgs)) = "user" THEN <<content_of(Head(msgs))>>
        ELSE <<>>) \o user_contents_of(Tail(msgs))

\* variant: the ten most recent user turns of the whole conversation
combined_content_users_first(msgs) ==
  LET cs == user_contents_of(msgs) IN
    Join(SubSeq(cs, Max(1, Len(cs) - ContextWindow + 1), Len(cs)))

\* combined_content: the user turns among the last ten turns, joined
combined_content_of(msgs) == Join(user_contents_of(last_messages_of(msgs)))

NoHistoryResult ==
  SafetyResult(TRUE, SAFE, NoneVal, Pct(100),
    <<"No conversation history to validate">>, NoneVal)

\* validate_conversation_context up to the await inside validate_content
ValidateConversationContext(msgs, session_metadata) ==
  /\ pc = "idle"
  /\ messages' = msgs
  /\ IF msgs = <<>>
       THEN /\ verdict' = NoHistoryResult
            /\ pc' = "done"
            /\ content' = <<>>
            /\ context' = NoneVal
            /\ invoked' = {}
            /\ results' = <<>>
       ELSE validate_content_starts(
              combined_content_of(msgs),
              [conversation_length |-> Len(msgs),
               session_metadata |-> session_metadata])
  /\ UNCHANGED earlier
  /\ UNCHANGED managerVars

UserKill == [role |-> "user", content |-> <<"kill", SP, "myself">>]

UserMedication == [role |-> "user", content |-> <<"medication">>]

UserNoContent == [role |-> "user"]

AssistantKill == [role |-> "assistant", content |-> <<"kill", SP, "myself">>]

SystemSuicide == [role |-> "system", content |-> <<"suicide">>]

AssistantFiller == [role |-> "assistant", content |-> <<"tell", SP, "more">>]

TurnKinds == { UserKill, UserMedication, UserNoContent, AssistantKill }

\* a conversation is some older turn, a run of assistant turns, and recent
\* turns: the older turn is inside or outside the window of ten
OlderTurns == { <<>>, <<UserKill>>, <<SystemSuicide>> }

FillerRuns == { 0, ContextWindow - 2, ContextWindow - 1, ContextWindow }

ConvEndingItAll ==
  << [role |-> "user", content |-> Sentence(<<"I", "feel", "down">>)],
     AssistantFiller,
     [role |-> "user",
      content |-> Sentence(<<"I", "keep", "thinking", "about", "ending",
                             "it", "all">>)] >>

Conversations ==
  { old \o [k \in 1..n |-> AssistantFiller] \o recent :
      old \in OlderTurns, n \in FillerRuns,
      recent \in SeqsUpTo(TurnKinds, MaxRecent) }
    \cup { ConvEndingItAll }

SessionMetadata == { NoneVal, "metadata" }

NextConversation ==
  \/ \E msgs \in Conversations, md \in SessionMetadata :
       ValidateConversationContext(msgs, md)
  \/ \E i \in 1..Len(validators) : ValidatorReturns(i)
  \/ GatherDone
  \/ Return

SpecConversation == Init /\ [][NextConversation]_vars

\* ------------------------------------------------ repeated calls, one engine
RepeatContents == { MsgKillAndMedication, <<"medication">>, <<SP>> }

NextRepeat ==
  \/ \E c \in RepeatContents, ctx \in Contexts : ValidateContent(c, ctx)
  \/ \E i \in 1..Len(validators) : ValidatorReturns(i)
  \/ \E i \in 1..Len(validators) : ValidatorRaises(i)
  \/ GatherDone
  \/ ReturnRemembered

SpecRepeat == Init /\ [][NextRepeat]_vars

\* ------------------------------------------------------- session manager
\* SessionStatus, MessageRole, SafetyFlag
ACTIVE == "active"

COMPLETED == "completed"

USER == "user"

ASSISTANT == "assistant"

INAPPROPRIATE_REQUEST == "inappropriate_request"

SafetyFlag ==
  { "crisis", "self_harm", "substance_abuse", INAPPROPRIATE_REQUEST,
    "medical_advice" }

\* the number of most recent stored messages send_message hands on as history
HistoryWindow == 20

\* a slot that serves no request, a request that has no result yet
Idle == [op |-> "idle"]

NoResult == [state |-> "none"]

Error(name) == [error |-> name]

\* TherapeuticSession(user_id=...) with the column defaults
TherapeuticSession(user_id) ==
  [ user_id |-> user_id, status |-> ACTIVE, summary |-> NoneVal,
    safety_score |-> Pct(100), message_count |-> 0, messages |-> <<>> ]

ConversationMessage(role, msg_content, safety_score, metadata) ==
  [ role |-> role, content |-> msg_content, safety_score |-> safety_score,
    metadata |-> metadata ]

\* SessionRepository.get_active_session_count
get_active_session_count(ss, user_id) ==
  Cardinality({ id \in DOMAIN ss :
                  ss[id].user_id = user_id /\ ss[id].status = ACTIVE })

\* variant: the message row is stored and message_count is left alone
add_message_row_only(ss, session_id, message) ==
  [ss EXCEPT ![session_id].messages = Append(@, message)]

\* MessageRepository.add_message: the message row, and message_count + 1
add_message(ss, session_id, message) ==
  [ss EXCEPT ![session_id].messages = Append(@, message),
             ![session_id].message_count = @ + 1]

\* variant: the severity of the latest event replaces the safety_score
overwritten_safety_score(ss, session_id, severity_score) ==
  [ss EXCEPT ![session_id].safety_score = severity_score]

\* SafetyRepository.create_safety_event: the session's safety_score becomes
\* least(safety_score, severity_score)
lowered_safety_score(ss, session_id, severity_score) ==
  [ss EXCEPT ![session_id].safety_score = Min(@, severity_score)]

\* variant: the status is left as it is
update_session_status_skipped(ss, session_id, status) == ss

\* SessionRepository.update_session_status
update_session_status(ss, session_id, status) ==
  [ss EXCEPT ![session_id].status = status]

\* variant: the stored history is handed on whole
whole_history_of(session) ==
  [k \in 1..Len(session.messages) |->
     [role |-> session.messages[k].role,
      content |-> session.messages[k].content]]

\* conversation_history: role and content of session.messages[-20:]
conversation_history_of(session) ==
  LET n == Len(session.messages)
      first == Max(1, n - HistoryWindow + 1) IN
    [k \in 1..(n - first + 1) |->
       [role |-> session.messages[first + k - 1].role,
        content |-> session.messages[first + k - 1].content]]

\* the context send_message hands to validate_content
assessment_context(session_id, session, history) ==
  [ session_id |-> session_id, conversation_history |-> history,
    session_metadata |-> [message_count |-> session.message_count,
                          safety_score |-> session.safety_score] ]

\* what validate_content returns when the validators in failed raise
validate_content_of(c, ctx, failed) ==
  IF Strip(c) = <<>> THEN EmptyContentResult
  ELSE LET outcomes == [i \in 1..Len(validators) |->
                          IF i \in failed THEN Raised ELSE validate(i, c, ctx)]
           valid_results == valid_results_of(outcomes) IN
         IF valid_results = <<>> THEN ValidationFailedResult
         ELSE _aggregate_results(valid_results)

\* variant: only a critical verdict takes the intervention branch
intervenes_when_critical(safety_result) == safety_result.level = CRITICAL

\* "if not safety_result.is_safe"
intervenes(safety_result) == ~safety_result.is_safe

\* safety_flag_mapping.get(category.value if category else
\* "inappropriate_request", SafetyFlag.INAPPROPRIATE_REQUEST)
flag_type_of(category) ==
  IF category = NoneVal THEN INAPPROPRIATE_REQUEST
  ELSE IF category \in SafetyFlag THEN category
  ELSE INAPPROPRIATE_REQUEST

\* variant: the confidence is stored as the severity
severity_is_confidence(safety_result) == safety_result.confidence

\* severity_score = 1.0 - safety_result.confidence
severity_score_of(safety_result) == Pct(100) - safety_result.confidence

SafetyEvent(session_id, safety_result) ==
  [ session_id |-> session_id,
    flag_type |-> flag_type_of(safety_result.category),
    severity_score |-> severity_score_of(safety_result),
    description |-> safety_result.explanation,
    intervention_taken |-> "Automated safety response provided" ]

_get_default_safety_response(level) ==
  IF level = CRITICAL
    THEN "I'm very concerned about your safety. ... 988 ... 741741 ... 911"
  ELSE IF level = WARNING
    THEN "I'm concerned about what you've shared ... 988 ... 741741"
  ELSE "I want to make sure we're focusing on what's most helpful for you."

\* variant: the intervention always answers with the canned response
default_response_only(safety_result) ==
  _get_default_safety_response(safety_result.level)

\* safety_result.suggested_response or _get_default_safety_response(level)
response_content_of(safety_result) ==
  IF safety_result.suggested_response # NoneVal
    THEN safety_result.suggested_response
    ELSE _get_default_safety_response(safety_result.level)

GeneratedReply == "generated reply"

FallbackResponse ==
  "I apologize, but I'm having difficulty processing your message right now."

\* the slot a new request is served in: the lowest idle one
free_slot ==
  IF \E r \in DOMAIN requests : requests[r] = Idle
    THEN CHOOSE r \in DOMAIN requests :
           /\ requests[r] = Idle
           /\ \A q \in DOMAIN requests : requests[q] = Idle => r <= q
    ELSE 0

\* ---- POST /sessions
\* therapeutic_exception_handler: the answer to an exception of the manager
\* that an endpoint lets through
therapeutic_exception_handler(exc) ==
  [ status_code |->
      CASE exc.error = "SessionNotFoundError" -> 404
        [] exc.error = "SessionLimitExceededError" -> 429
        [] exc.error = "SafetyViolationError" -> 400
        [] exc.error = "AnthropicAPIError" -> 502
        [] OTHER -> 500,
    type |-> exc.error ]

\* the endpoint create_session: the session data with 201, and for every
\* exception of the manager an HTTPException with 500
post_sessions_response(result) ==
  IF "error" \in DOMAIN result
    THEN [ status_code |-> 500, detail |-> "Failed to create session" ]
    ELSE [ status_code |-> 201, session |-> result ]

\* ---- create_session
\* create_session up to the await of the count query
CreateSession(r, user_id) ==
  /\ r = free_slot
  /\ started < max_sessions_per_user + MaxOps
  /\ started' = started + 1
  /\ requests' = [requests EXCEPT ![r] =
       [ op |-> "create_session", pc |-> "counted", user_id |-> user_id,
         active_count |-> get_active_session_count(sessions, user_id),
         result |-> NoResult, response |-> NoResult ]]
  /\ UNCHANGED << sessions, safety_events >>
  /\ UNCHANGED engineVars

\* create_session after the count: the limit check, then the INSERT
CreateSessionChecked(r) ==
  /\ requests[r].op = "create_session"
  /\ requests[r].pc = "counted"
  /\ IF requests[r].active_count >= max_sessions_per_user
       THEN /\ requests' = [requests EXCEPT
                 ![r].pc = "returned",
                 ![r].result = Error("SessionLimitExceededError"),
                 ![r].response = post_sessions_response(
                                   Error("SessionLimitExceededError"))]
            /\ UNCHANGED sessions
       ELSE /\ sessions' = Append(sessions,
                                  TherapeuticSession(requests[r].user_id))
            /\ LET session_data == [ session_id |-> Len(sessions) + 1,
                                     user_id |-> requests[r].user_id,
                                     status |-> ACTIVE, message_count |-> 0 ]
               IN requests' = [requests EXCEPT
                    ![r].pc = "returned",
                    ![r].result = session_data,
                    ![r].response = post_sessions_response(session_data)]
  /\ UNCHANGED << safety_events, started >>
  /\ UNCHANGED engineVars

\* ---- end_session
\* end_session up to the load of the session and the three checks
EndSession(r, session_id, user_id) ==
  /\ r = free_slot
  /\ LET request == [ op |-> "end_session", pc |-> "loaded",
                      session_id |-> session_id, user_id |-> user_id,
                      message_count |-> 0, result |-> NoResult ]
         failed(name) == [request EXCEPT !.pc = "returned",
                                         !.result = Error(name)] IN
       requests' = [requests EXCEPT ![r] =
         IF session_id \notin DOMAIN sessions
           THEN failed("SessionNotFoundError")
         ELSE IF user_id # NoneVal /\ sessions[session_id].user_id # user_id
           THEN failed("SessionNotFoundError")
         ELSE IF sessions[session_id].status # ACTIVE
           THEN failed("ValueError")
         ELSE [request EXCEPT
                 !.message_count = sessions[session_id].message_count]]
  /\ UNCHANGED << sessions, safety_events, started >>
  /\ UNCHANGED engineVars

\* end_session after the load: the summary of a session of more than five
\* messages when the analysis succeeds, then status COMPLETED
EndSessionCompleted(r, analysis) ==
  /\ requests[r].op = "end_session"
  /\ requests[r].pc = "loaded"
  /\ LET id == requests[r].session_id
         summary == IF requests[r].message_count > 5 /\ analysis # Raised
                      THEN analysis.analysis ELSE sessions[id].summary IN
       /\ sessions' = update_session_status(
                         [sessions EXCEPT ![id].summary = summary],
                         id, COMPLETED)
       /\ requests' = [requests EXCEPT
            ![r].pc = "returned",
            ![r].result = [ session_id |-> id, status |-> COMPLETED,
                            message_count |-> requests[r].message_count ]]
  /\ UNCHANGED << safety_events, started >>
  /\ UNCHANGED engineVars

\* ---- send_message
\* send_message up to the load of the session: the checks, and the history
\* taken from the loaded session
SendMessage(r, session_id, user_message, user_id) ==
  /\ r = free_slot
  /\ started < MaxOps
  /\ LET request == [ op |-> "send_message", pc |-> "loaded",
                      session_id |-> session_id,
                      user_message |-> user_message, user_id |-> user_id,
                      conversation_history |-> <<>>,
                      safety_result |-> NoVerdict, assess_calls |-> <<>>,
                      client_calls |-> <<>>, result |-> NoResult ]
         failed(name) == [request EXCEPT !.pc = "returned",
                                         !.result = Error(name)] IN
       requests' = [requests EXCEPT ![r] =
         IF Strip(user_message) = <<>> THEN failed("ValueError")
         ELSE IF session_id \notin DOMAIN sessions
           THEN failed("SessionNotFoundError")
         ELSE IF user_id # NoneVal /\ sessions[session_id].user_id # user_id
           THEN failed("SessionNotFoundError")
         ELSE IF sessions[session_id].status # ACTIVE
           THEN failed("ValueError")
         ELSE [request EXCEPT
                 !.conversation_history =
                    conversation_history_of(sessions[session_id])]]
  /\ started' = IF requests'[r].pc = "loaded" THEN started + 1 ELSE started
  /\ UNCHANGED << sessions, safety_events >>
  /\ UNCHANGED engineVars

\* send_message from validate_content to the branch on the verdict: the user
\* message is stored, and a safe message goes to the generative client
SendMessageAssessed(r, failed) ==
  /\ requests[r].op = "send_message"
  /\ requests[r].pc = "loaded"
  /\ LET id == requests[r].session_id
         ctx == assessment_context(id, sessions[id],
                                   requests[r].conversation_history)
         safety_result == validate_content_of(requests[r].user_message, ctx,
                                              failed)
         stored == ConversationMessage(USER, requests[r].user_message,
                     IF safety_result.is_safe THEN NoneVal
                     ELSE safety_result.confidence,
                     "safety_validated") IN
       /\ sessions' = add_message(sessions, id, stored)
       /\ requests' = [requests EXCEPT
            ![r].safety_result = safety_result,
            ![r].assess_calls = Append(@, requests[r].user_message),
            ![r].client_calls =
               IF intervenes(safety_result) THEN @
               ELSE Append(@, [ user_message |-> requests[r].user_message,
                                conversation_history |->
                                  requests[r].conversation_history ]),
            ![r].pc = IF intervenes(safety_result) THEN "violation"
                      ELSE "generating"]
  /\ UNCHANGED << safety_events, started >>
  /\ UNCHANGED engineVars

\* _handle_safety_violation: the safety event
SendMessageViolationHandled(r) ==
  /\ requests[r].op = "send_message"
  /\ requests[r].pc = "violation"
  /\ LET id == requests[r].session_id
         event == SafetyEvent(id, requests[r].safety_result) IN
       /\ safety_events' = Append(safety_events, event)
       /\ sessions' = lowered_safety_score(sessions, id, event.severity_score)
  /\ requests' = [requests EXCEPT ![r].pc = "intervention"]
  /\ UNCHANGED started
  /\ UNCHANGED engineVars

\* the intervention reply is stored and returned
SendMessageIntervened(r) ==
  /\ requests[r].op = "send_message"
  /\ requests[r].pc = "intervention"
  /\ LET id == requests[r].session_id
         response_content == response_content_of(requests[r].safety_result) IN
       /\ sessions' = add_message(sessions, id,
            ConversationMessage(ASSISTANT, response_content, NoneVal,
                                "safety_intervention"))
       /\ requests' = [requests EXCEPT
            ![r].pc = "returned",
            ![r].result = [ content |-> response_content,
                            role |-> ASSISTANT,
                            safety_intervention |-> TRUE,
                            safety_level |-> requests[r].safety_result.level ]]
  /\ UNCHANGED << safety_events, started >>
  /\ UNCHANGED engineVars

\* the generative client answers: the reply is stored and returned
ClientReturns(r) ==
  /\ requests[r].op = "send_message"
  /\ requests[r].pc = "generating"
  /\ sessions' = add_message(sessions, requests[r].session_id,
       ConversationMessage(ASSISTANT, GeneratedReply, NoneVal, "model"))
  /\ requests' = [requests EXCEPT
       ![r].pc = "returned",
       ![r].result = [ content |-> GeneratedReply, role |-> ASSISTANT,
                       safety_intervention |-> FALSE ]]
  /\ UNCHANGED << safety_events, started >>
  /\ UNCHANGED engineVars

\* the generative client raises: the fallback reply is stored and returned
ClientRaises(r) ==
  /\ requests[r].op = "send_message"
  /\ requests[r].pc = "generating"
  /\ sessions' = add_message(sessions, requests[r].session_id,
       ConversationMessage(ASSISTANT, FallbackResponse, NoneVal,
                           "fallback_response"))
  /\ requests' = [requests EXCEPT
       ![r].pc = "returned",
       ![r].result = [ content |-> FallbackResponse, role |-> ASSISTANT,
                       safety_intervention |-> FALSE,
                       error |-> "AI response generation failed" ]]
  /\ UNCHANGED << safety_events, started >>
  /\ UNCHANGED engineVars

\* the caller has the result or the exception of its request
Answered(r) ==
  /\ requests[r] # Idle
  /\ requests[r].pc = "returned"
  /\ requests' = [requests EXCEPT ![r] = Idle]
  /\ UNCHANGED << sessions, safety_events, started >>
  /\ UNCHANGED engineVars

\* ---- inputs
Slots == 1..2

UserIds == { "u1", "u2" }

TextSafe == Sentence(<<"I", "feel", "down">>)

TextBoundary == Sentence(<<"phone", "number">>)

Texts == { <<SP>>, TextSafe, MsgKillMyself, TextBoundary }

\* the messages sent: each text to the stored session, and one message each
\* by its owner, by another user and to a session that does not exist
SendRequests ==
  { [session_id |-> 1, user_message |-> t, user_id |-> NoneVal] :
      t \in Texts }
    \cup { [session_id |-> 1, user_message |-> TextSafe, user_id |-> u] :
             u \in UserIds }
    \cup { [session_id |-> 2, user_message |-> TextSafe,
             user_id |-> NoneVal] }

EndRequests ==
  { [session_id |-> id, user_id |-> NoneVal] : id \in 1..2 }
    \cup { [session_id |-> 1, user_id |-> u] : u \in UserIds }

\* for the session limit: the sessions that can exist, ended by anyone or by
\* the first user
EndRequestsLimit ==
  { [session_id |-> id, user_id |-> u] :
      id \in 1..(max_sessions_per_user + MaxOps), u \in {NoneVal, "u1"} }

\* analyze_conversation_patterns answers, or raises
AnalysisOutcomes == { [analysis |-> "progress summary"], Raised }

\* no validator fails, or every validator fails
FailureSets == { {}, 1..Len(validators) }

\* a session of eleven safe exchanges, stored before the manager starts
StoredExchanges == 11

LongSession ==
  [ TherapeuticSession("u1") EXCEPT
      !.message_count = 2 * StoredExchanges,
      !.messages = [k \in 1..(2 * StoredExchanges) |->
         IF k % 2 = 1
           THEN ConversationMessage(USER, TextSafe, NoneVal,
                                    "safety_validated")
           ELSE ConversationMessage(ASSISTANT, GeneratedReply, NoneVal,
                                    "model")] ]

InitSession ==
  /\ EngineInit
  /\ sessions = << LongSession >>
  /\ safety_events = <<>>
  /\ requests = [r \in Slots |-> Idle]
  /\ started = 0

NextSession ==
  \/ \E r \in Slots, e \in EndRequests :
       EndSession(r, e.session_id, e.user_id)
  \/ \E r \in Slots, analysis \in AnalysisOutcomes :
       EndSessionCompleted(r, analysis)
  \/ \E r \in Slots, m \in SendRequests :
       SendMessage(r, m.session_id, m.user_message, m.user_id)
  \/ \E r \in Slots, failed \in FailureSets : SendMessageAssessed(r, failed)
  \/ \E r \in Slots : SendMessageViolationHandled(r)
  \/ \E r \in Slots : SendMessageIntervened(r)
  \/ \E r \in Slots : ClientReturns(r)
  \/ \E r \in Slots : ClientRaises(r)
  \/ \E r \in Slots : Answered(r)

SpecSession == InitSession /\ [][NextSession]_vars

\* ---- the life of a session that starts with two stored exchanges: ended
\* at once its summary is skipped, ended after one more exchange it is not
ShortSession ==
  [ TherapeuticSession("u1") EXCEPT
      !.message_count = 4,
      !.messages =
         << ConversationMessage(USER, TextSafe, NoneVal, "safety_validated"),
            ConversationMessage(ASSISTANT, GeneratedReply, NoneVal, "model"),
            ConversationMessage(USER, TextSafe, NoneVal, "safety_validated"),
            ConversationMessage(ASSISTANT, GeneratedReply, NoneVal,
                                "model") >> ]

InitLifecycle ==
  /\ EngineInit
  /\ sessions = << ShortSession >>
  /\ safety_events = <<>>
  /\ requests = [r \in Slots |-> Idle]
  /\ started = 0

SpecLifecycle == InitLifecycle /\ [][NextSession]_vars

\* ---- the safety score: the store holds a new session, or a session that
\* has had one exchange whose message touched a therapeutic boundary
BoundaryVerdict == validate_content_of(TextBoundary, NoneVal, {})

FlaggedSession ==
  LET stored == add_message(<< TherapeuticSession("u1") >>, 1,
                  ConversationMessage(USER, TextBoundary,
                                      BoundaryVerdict.confidence,
                                      "safety_validated"))
      lowered == lowered_safety_score(stored, 1,
                                      severity_score_of(BoundaryVerdict))
      answered == add_message(lowered, 1,
                    ConversationMessage(ASSISTANT,
                                        response_content_of(BoundaryVerdict),
                                        NoneVal, "safety_intervention"))
  IN answered[1]

InitScore ==
  /\ EngineInit
  /\ \/ /\ sessions = << TherapeuticSession("u1") >>
        /\ safety_events = <<>>
     \/ /\ sessions = << FlaggedSession >>
        /\ safety_events = << SafetyEvent(1, BoundaryVerdict) >>
  /\ requests = [r \in Slots |-> Idle]
  /\ started = 0

SpecScore == InitScore /\ [][NextSession]_vars

\* ---- the session limit: create_session and end_session on an empty store
InitLimit ==
  /\ EngineInit
  /\ sessions = <<>>
  /\ safety_events = <<>>
  /\ requests = [r \in Slots |-> Idle]
  /\ started = 0

NextLimit ==
  \/ \E r \in Slots, user_id \in UserIds : CreateSession(r, user_id)
  \/ \E r \in Slots : CreateSessionChecked(r)
  \/ \E r \in Slots, e \in EndRequestsLimit :
       EndSession(r, e.session_id, e.user_id)
  \/ \E r \in Slots, analysis \in AnalysisOutcomes :
       EndSessionCompleted(r, analysis)
  \/ \E r \in Slots : Answered(r)

SpecLimit == InitLimit /\ [][NextLimit]_vars

\* ------------------------------------------------------------------
\* vocabulary of the properties (stated without the engine's operators)
IsResult(r) == r # Pending /\ r # Raised

\* the registered validators of the finished call that did not fail
Survivors == { i \in DOMAIN results : IsResult(results[i]) }

Failures == { i \in DOMAIN results : results[i] = Raised }

UnsafeSurvivors == { i \in Survivors : ~results[i].is_safe }

\* the numeric priority of section 3: Safe < Caution < Warning < Critical
LevelRank(level) ==
  IF level = CRITICAL THEN 3
  ELSE IF level = WARNING THEN 2
  ELSE IF level = CAUTION THEN 1
  ELSE 0

\* result i is at most result j in the order (levelPriority, confidence)
RankedLeq(i, j) ==
  \/ LevelRank(results[i].level) < LevelRank(results[j].level)
  \/ /\ LevelRank(results[i].level) = LevelRank(results[j].level)
     /\ results[i].confidence <= results[j].confidence

RECURSIVE SumConfidence(_)
SumConfidence(I) ==
  IF I = {} THEN 0
  ELSE LET i == CHOOSE x \in I : TRUE
       IN results[i].confidence + SumConfidence(I \ {i})

\* the text is empty or whitespace only
Blank(c) == \A k \in 1..Len(c) : c[k] = SP

\* a call that went through the validators has finished
Assessed == pc = "done" /\ invoked # {}

\* the verdict a validator gives on the content of the finished call
OwnVerdict(i) ==
  CASE i = 1 -> CrisisValidator(content, context)
    [] i = 2 -> SelfHarmValidator(content, context)
    [] i = 3 -> MedicalAdviceValidator(content, context)
    [] i = 4 -> TherapeuticBoundaryValidator(content, context)

RECURSIVE OwnVerdicts(_, _)
\* the verdicts of the validators i..4 that are in S, in registration order
OwnVerdicts(i, S) ==
  IF i > 4 THEN <<>>
  ELSE (IF i \in S THEN <<OwnVerdict(i)>> ELSE <<>>) \o OwnVerdicts(i + 1, S)

\* ------------------------------------------------------------------ C1
\* C1: when every validator fails, validate_content still returns, and what
\* it returns is the fail-closed fallback: unsafe, level warning, no category,
\* confidence 0.1.  Whatever subset of the validators fails, the call does not
\* end without a SafetyResult: once every task has an outcome the call can
\* finish, and a finished call holds a verdict.
C1_TotalFailureFallback ==
  /\ (Assessed /\ Survivors = {}) =>
        /\ verdict.is_safe = FALSE
        /\ verdict.level = WARNING
        /\ verdict.category = NoneVal
        /\ verdict.confidence = Pct(10)
  /\ pc = "done" => verdict # NoVerdict
  /\ (pc = "gather" /\ \A i \in DOMAIN results : results[i] # Pending)
        => ENABLED GatherDone

C1_Witness ==
  /\ Assessed
  /\ Failures = 1..4
  /\ verdict.is_safe = FALSE
  /\ verdict.confidence = Pct(10)

\* ------------------------------------------------------------------ C2
\* C2: when some but not all validators fail on content that is not blank,
\* the verdict is the merge of the verdicts of exactly the validators that
\* did not fail, in registration order (what an engine without the failed
\* validators returns), and it is not the engine-level fallback.
C2_PartialFailureTolerance ==
  (Assessed /\ Failures # {} /\ Survivors # {}) =>
     /\ \A i \in Survivors : results[i] = OwnVerdict(i)
     /\ verdict = _aggregate_results(OwnVerdicts(1, Survivors))
     /\ ~(verdict.is_safe = FALSE /\ verdict.category = NoneVal)
     /\ verdict.confidence # Pct(10)

C2_Witness ==
  /\ Assessed
  /\ Failures = {1, 2}
  /\ verdict.is_safe = FALSE
  /\ verdict.category = MEDICAL_ADVICE

\* ------------------------------------------------------------------ C3
\* C3: when at least one surviving verdict is unsafe, the level, category and
\* suggested response of the aggregate are those of the unsafe verdict that
\* is greatest in the order (levelPriority, confidence), Safe=0 < Caution=1 <
\* Warning=2 < Critical=3.  A critical crisis verdict together with a caution
\* medical-advice verdict gives level critical and category crisis.
C3_MostCriticalSelected ==
  (Assessed /\ UnsafeSurvivors # {}) =>
     /\ \E i \in UnsafeSurvivors : \A j \in UnsafeSurvivors : RankedLeq(j, i)
     /\ \A i \in UnsafeSurvivors :
          (\A j \in UnsafeSurvivors : RankedLeq(j, i)) =>
             /\ verdict.level = results[i].level
             /\ verdict.category = results[i].category
             /\ verdict.suggested_response = results[i].suggested_response
     /\ ( /\ \E i \in UnsafeSurvivors :
               results[i].level = CRITICAL /\ results[i].category = CRISIS
          /\ \E j \in UnsafeSurvivors :
               results[j].level = CAUTION
                 /\ results[j].category = MEDICAL_ADVICE )
          => (verdict.level = CRITICAL /\ verdict.category = CRISIS)

C3_Witness ==
  /\ Assessed
  /\ Failures = {}
  /\ results[1].level = CRITICAL /\ results[1].category = CRISIS
  /\ results[2].level = WARNING /\ results[2].confidence > results[1].confidence
  /\ results[3].level = CAUTION /\ results[3].category = MEDICAL_ADVICE
  /\ verdict.level = CRITICAL /\ verdict.category = CRISIS

\* ------------------------------------------------------------------ C4
\* C4: when the surviving pool is not empty and every verdict in it is safe,
\* the aggregate is safe, level safe, without category, and its confidence is
\* the greatest confidence among the surviving verdicts.
C4_SafeDominance ==
  (Assessed /\ Survivors # {} /\ UnsafeSurvivors = {}) =>
     /\ verdict.is_safe = TRUE
     /\ verdict.level = SAFE
     /\ verdict.category = NoneVal
     /\ \A i \in Survivors : results[i].confidence <= verdict.confidence
     /\ \E i \in Survivors : results[i].confidence = verdict.confidence

C4_Witness ==
  /\ Assessed
  /\ Failures = {}
  /\ UnsafeSurvivors = {}
  /\ results[1].confidence = Pct(80)
  /\ results[2].confidence = Pct(90)
  /\ verdict.is_safe /\ verdict.confidence = Pct(90)

\* ------------------------------------------------------------------ C5
\* C5: for content that is empty or only whitespace the call returns safe,
\* level safe, no category, confidence 1.0, and no validator is invoked.
C5_EmptyContentSafe ==
  /\ (pc = "done" /\ Blank(content)) =>
        /\ verdict.is_safe = TRUE
        /\ verdict.level = SAFE
        /\ verdict.category = NoneVal
        /\ verdict.confidence = Pct(100)
        /\ invoked = {}
  /\ (pc \in {"gather", "done"} /\ invoked # {}) => ~Blank(content)

C5_Witness ==
  /\ pc = "done"
  /\ content = <<SP, SP>>
  /\ invoked = {}
  /\ verdict.is_safe = TRUE

\* ------------------------------------------------------------------ C6
\* C6: for "I accidentally cut myself while cooking", with all four
\* validators running and none failing, the aggregate is safe with level safe.
C6_AccidentalCutIsSafe ==
  (Assessed /\ content = MsgAccidentalCut /\ Failures = {}) =>
     (verdict.is_safe = TRUE /\ verdict.level = SAFE)

\* ------------------------------------------------------------------ C7
\* C7 as stated: for "I want to kill myself and end this pain" the crisis
\* validator counts at least 2 indicators and the aggregate is unsafe,
\* critical, crisis, with confidence >= 0.85.
C7_KillMyselfConfidence85 ==
  (Assessed /\ content = MsgKillMyself /\ Failures = {}) =>
     /\ total_indicators(content) >= 2
     /\ verdict.is_safe = FALSE
     /\ verdict.level = CRITICAL
     /\ verdict.category = CRISIS
     /\ verdict.confidence >= Pct(85)

\* C7 amended: for that input the crisis validator counts exactly 2
\* indicators (one pattern, one keyword) and the aggregate is unsafe,
\* critical, crisis, with confidence 0.7 = min(0.9, 0.4 + 0.15 * 2), the
\* crisis verdict being the only unsafe one (no boost).
C7_KillMyselfCritical ==
  (Assessed /\ content = MsgKillMyself /\ Failures = {}) =>
     /\ total_indicators(content) = 2
     /\ UnsafeSurvivors = {1}
     /\ verdict.is_safe = FALSE
     /\ verdict.level = CRITICAL
     /\ verdict.category = CRISIS
     /\ verdict.confidence = Pct(70)

C7_Witness ==
  /\ Assessed
  /\ content = MsgKillMyself
  /\ Failures = {}
  /\ verdict.level = CRITICAL

\* ------------------------------------------------------------------ C8
\* C8 as stated: every verdict of a validator or of the engine, the merge
\* result and the total-failure fallback included, that is unsafe carries a
\* category.
C8_UnsafeHasCategory ==
  /\ \A i \in DOMAIN results :
       (IsResult(results[i]) /\ ~results[i].is_safe)
          => results[i].category \in SafetyCategory
  /\ (pc = "done" /\ ~verdict.is_safe) => verdict.category \in SafetyCategory

\* C8 amended: every unsafe verdict of a validator and every unsafe merge
\* result carries a category; the engine's verdict is unsafe without a
\* category exactly when it is the total-failure fallback (every validator
\* failed).
C8_UnsafeHasCategoryUnlessFallback ==
  /\ \A i \in DOMAIN results :
       (IsResult(results[i]) /\ ~results[i].is_safe)
          => results[i].category \in SafetyCategory
  /\ (pc = "done" /\ ~verdict.is_safe /\ Survivors # {})
        => verdict.category \in SafetyCategory
  /\ (pc = "done" /\ ~verdict.is_safe /\ verdict.category = NoneVal)
        => (invoked # {} /\ Failures = DOMAIN results)

C8_Witness ==
  /\ Assessed
  /\ Failures = {1}
  /\ UnsafeSurvivors # {}
  /\ verdict.is_safe = FALSE
  /\ verdict.category = SELF_HARM

\* ------------------------------------------------------------------ C9
\* C9: every verdict of a validator or of the engine that is safe has no
\* category.
C9_SafeHasNoCategory ==
  /\ \A i \in DOMAIN results :
       (IsResult(results[i]) /\ results[i].is_safe)
          => results[i].category = NoneVal
  /\ (pc = "done" /\ verdict.is_safe) => verdict.category = NoneVal

C9_Witness ==
  /\ Assessed
  /\ Failures = {}
  /\ results[1].is_safe /\ ~results[3].is_safe
  /\ UnsafeSurvivors = {3}

C11_ConfidenceBounds ==
  /\ \A i \in DOMAIN results :
       IsResult(results[i]) =>
          (0 <= results[i].confidence /\ results[i].confidence <= Pct(100))
  /\ pc = "done" => (0 <= verdict.confidence /\ verdict.confidence <= Pct(100))
  /\ (pc = "done" /\ ~verdict.is_safe) => verdict.confidence <= Pct(95)

C11_Witness ==
  /\ Assessed
  /\ content = MsgManyIndicators
  /\ Failures = {}
  /\ results[1].confidence = Pct(90)
  /\ Cardinality(UnsafeSurvivors) = 3
  /\ verdict.confidence = Pct(95)

\* ------------------------------------------------------------------ C19
\* the verdict of a call on the content, given the validators that fail
ExpectedOutcome ==
  IF Failures = DOMAIN results
    THEN SafetyResult(FALSE, WARNING, NoneVal, Pct(10),
           <<"Safety validation failed - unable to assess content">>, NoneVal)
    ELSE _aggregate_results(OwnVerdicts(1, DOMAIN results \ Failures))

\* C19: in every interleaving of the validators' returns and failures within
\* one call, the merge starts only once every registered validator has
\* returned or failed (no verdict exists while a task is pending, and the step
\* that produces the verdict is taken with no task pending), and the verdict
\* depends only on the content and on which validators failed, not on the
\* order in which the tasks finished.
C19_JoinBeforeMerge ==
  /\ [](pc = "gather" => verdict = NoVerdict)
  /\ [](Assessed =>
          /\ \A i \in DOMAIN results : results[i] # Pending
          /\ verdict = ExpectedOutcome)
  /\ [][(pc = "gather" /\ pc' = "done") =>
          \A i \in DOMAIN results : results[i] # Pending /\ results'[i] = results[i]]_vars

\* a later registered validator has finished before an earlier one
C19_Witness ==
  /\ pc = "gather"
  /\ content = MsgKillAndMedication
  /\ results[1] = Pending
  /\ results[2] = Raised
  /\ IsResult(results[3])
  /\ results[4] = Pending

\* ------------------------------------------------------------------ C20
RECURSIVE FirstUnsafeExplanations(_, _)
\* the explanations of the first n unsafe surviving verdicts among the
\* validators i..4, in registration order
FirstUnsafeExplanations(i, n) ==
  IF i > 4 \/ n = 0 THEN <<>>
  ELSE IF i \in UnsafeSurvivors
         THEN results[i].explanation \o FirstUnsafeExplanations(i + 1, n - 1)
         ELSE FirstUnsafeExplanations(i + 1, n)

\* C20: the explanation of an unsafe aggregate is made of the explanations of
\* the first three unsafe surviving verdicts in registration order (crisis,
\* self-harm, medical advice, boundary), not in severity order, joined with
\* "; "; the explanation of a fourth unsafe verdict is left out.
C20_ExplanationOrder ==
  (Assessed /\ UnsafeSurvivors # {}) =>
     /\ verdict.explanation = FirstUnsafeExplanations(1, 3)
     /\ Len(verdict.explanation) = Min(3, Cardinality(UnsafeSurvivors))
     /\ Cardinality(UnsafeSurvivors) = 4 =>
          \A k \in 1..Len(verdict.explanation) :
            <<verdict.explanation[k]>> # results[4].explanation

C20_Witness ==
  /\ Assessed
  /\ content = MsgAllFour
  /\ Cardinality(UnsafeSurvivors) = 4
  /\ verdict.explanation =
       << "Multiple crisis indicators detected requiring immediate intervention",
          "Self-harm behavior indicators detected",
          "Request for medical advice detected" >>

\* ------------------------------------------------------------------ C12
\* C12: validate_content is deterministic.  Two calls on the same engine with
\* the same content return the same SafetyResult, field by field, whatever
\* the context of either call and whatever calls came before them; the
\* validators that fail, if any, are the same in both calls.
C12_Deterministic ==
  (pc = "done" /\ earlier # NoCall /\ earlier.content = content
     /\ earlier.failed = Failures) =>
    /\ verdict.is_safe = earlier.verdict.is_safe
    /\ verdict.level = earlier.verdict.level
    /\ verdict.category = earlier.verdict.category
    /\ verdict.confidence = earlier.verdict.confidence
    /\ verdict.explanation = earlier.verdict.explanation
    /\ verdict.suggested_response = earlier.verdict.suggested_response

C12_Witness ==
  /\ Assessed
  /\ earlier # NoCall
  /\ content = MsgKillAndMedication
  /\ earlier.content = content
  /\ earlier.context = NoneVal
  /\ context = "ctx"
  /\ Failures = {}
  /\ earlier.failed = {}
  /\ verdict.level = CRITICAL
  /\ verdict = earlier.verdict

\* ------------------------------------------------------------------ C13
RECURSIVE SpacedUserTexts(_)
\* a space and the content, for each of the turns k.. of the conversation that
\* is a user turn and one of the last ten turns
SpacedUserTexts(k) ==
  IF k > Len(messages) THEN <<>>
  ELSE (IF /\ k > Len(messages) - 10
           /\ "role" \in DOMAIN messages[k]
           /\ messages[k].role = "user"
          THEN <<SP>> \o (IF "content" \in DOMAIN messages[k]
                            THEN messages[k].content ELSE <<>>)
          ELSE <<>>) \o SpacedUserTexts(k + 1)

WindowUserText ==
  IF SpacedUserTexts(1) = <<>> THEN <<>> ELSE Tail(SpacedUserTexts(1))

\* C13: for a non-empty conversation, validate_conversation_context assesses
\* the text made of the contents of the user turns among the last ten turns,
\* in their order, joined by single spaces, and returns what validate_content
\* returns on that text: the empty-content verdict when the text is blank,
\* the merge of the four validators' verdicts on it otherwise.  The window of
\* ten is taken before the roles are looked at, so assistant turns, system
\* turns and turns older than the window have no part in the verdict.
C13_ConversationIsJoinedUserTurns ==
  messages # <<>> =>
    /\ pc \in {"gather", "done"}
    /\ content = WindowUserText
    /\ (pc = "done" /\ Blank(content)) =>
          verdict = SafetyResult(TRUE, SAFE, NoneVal, Pct(100),
                      <<"Empty content is safe">>, NoneVal)
    /\ (pc = "done" /\ ~Blank(content)) =>
          Assessed /\ Failures = {} /\ verdict = ExpectedOutcome

C13_Witness ==
  /\ Assessed
  /\ Len(messages) = 12
  /\ messages[1] = UserKill
  /\ messages[11] = AssistantKill
  /\ messages[12] = UserMedication
  /\ content = <<"medication">>
  /\ verdict.level # CRITICAL

\* ------------------------------------------------------------------ C14
\* C14: when a user turn among the last ten turns of the conversation holds
\* at least one crisis indicator (a crisis pattern or keyword), the verdict
\* of validate_conversation_context is unsafe with level warning or critical.
C14_CrisisTurnMakesUnsafe ==
  (/\ pc = "done"
   /\ \E k \in DOMAIN messages :
        /\ k > Len(messages) - 10
        /\ role_of(messages[k]) = "user"
        /\ total_indicators(content_of(messages[k])) >= 1) =>
    /\ ~verdict.is_safe
    /\ verdict.level \in {WARNING, CRITICAL}

C14_Witness ==
  /\ pc = "done"
  /\ messages = ConvEndingItAll
  /\ total_indicators(content_of(messages[3])) = 1
  /\ ~verdict.is_safe
  /\ verdict.level = WARNING
  /\ verdict.category = CRISIS

\* ------------------------------------------- vocabulary of the manager claims
\* slot r serves a send_message request / one whose verdict is known
Sending(r) == requests[r].op = "send_message"

Judged(r) == Sending(r) /\ requests[r].safety_result # NoVerdict

\* the request of slot r has returned a reply (not raised)
Replied(r) ==
  /\ Sending(r)
  /\ requests[r].pc = "returned"
  /\ "content" \in DOMAIN requests[r].result

\* the canned response for a level
CannedResponse(level) ==
  CASE level = CRITICAL ->
         "I'm very concerned about your safety. ... 988 ... 741741 ... 911"
    [] level = WARNING ->
         "I'm concerned about what you've shared ... 988 ... 741741"
    [] OTHER ->
         "I want to make sure we're focusing on what's most helpful for you."

\* ------------------------------------------------------------------ C15
\* C15: a send_message whose verdict is unsafe never calls the generative
\* client, and its reply is flagged safety_intervention and carries the
\* verdict's suggested_response, or the canned response for the verdict's
\* level when the verdict has none.
C15_UnsafeNeverGenerates ==
  \A r \in DOMAIN requests :
    (Judged(r) /\ ~requests[r].safety_result.is_safe) =>
      /\ requests[r].client_calls = <<>>
      /\ requests[r].pc \in {"violation", "intervention", "returned"}
      /\ requests[r].pc = "returned" =>
            /\ Replied(r)
            /\ requests[r].result.safety_intervention
            /\ requests[r].result.content =
                 (IF requests[r].safety_result.suggested_response # NoneVal
                    THEN requests[r].safety_result.suggested_response
                    ELSE CannedResponse(requests[r].safety_result.level))

C15_Witness ==
  \E r \in DOMAIN requests :
    /\ Replied(r)
    /\ ~requests[r].safety_result.is_safe
    /\ requests[r].safety_result.suggested_response = NoneVal
    /\ requests[r].safety_result.level = WARNING
    /\ requests[r].result.safety_intervention
    /\ requests[r].result.content = CannedResponse(WARNING)
    /\ requests[r].client_calls = <<>>

\* ------------------------------------------------------------------ C16
\* the safety event of the request of slot r, with the given flag type
EventOf(r, flag_type) ==
  [ session_id |-> requests[r].session_id,
    flag_type |-> flag_type,
    severity_score |-> Pct(100) - requests[r].safety_result.confidence,
    description |-> requests[r].safety_result.explanation,
    intervention_taken |-> "Automated safety response provided" ]

\* the request of slot r stores its safety event in this step
StoresEvent(r) ==
  /\ Sending(r)
  /\ requests[r].pc = "violation"
  /\ requests'[r].pc = "intervention"

\* the flag types that are also categories
FlagCategories ==
  { "crisis", "self_harm", "substance_abuse", "medical_advice",
    "inappropriate_request" }

\* C16 as stated: each unsafe verdict of send_message is stored as exactly
\* one safety event whose flag type is the verdict's category, whose severity
\* is 1 - confidence and whose description is the explanation; a safe verdict
\* stores none.
C16_EventFlagIsCategory ==
  [][ /\ \A r \in DOMAIN requests :
           StoresEvent(r) =>
             safety_events' =
               Append(safety_events,
                      EventOf(r, requests[r].safety_result.category))
      /\ (\A r \in DOMAIN requests : ~StoresEvent(r)) =>
           safety_events' = safety_events ]_vars

\* C16: each unsafe verdict of send_message is stored as exactly one safety
\* event, on the way to the intervention reply; its severity is
\* 1 - confidence, its description the explanation, and its flag type the
\* verdict's category when that is crisis, self_harm, substance_abuse,
\* medical_advice or inappropriate_request, and inappropriate_request for
\* any other category and for a verdict without category.  A safe verdict
\* stores no event.
C16_EventFlagIsMappedCategory ==
  /\ [](\A r \in DOMAIN requests :
          (Judged(r) /\ requests[r].pc \in {"violation", "intervention"}) =>
             ~requests[r].safety_result.is_safe)
  /\ [](\A r \in DOMAIN requests :
          (Judged(r) /\ ~requests[r].safety_result.is_safe) =>
            \/ requests[r].pc = "violation"
            \/ \E k \in DOMAIN safety_events :
                 safety_events[k] =
                   EventOf(r, IF requests[r].safety_result.category
                                   \in FlagCategories
                                THEN requests[r].safety_result.category
                                ELSE "inappropriate_request"))
  /\ [][ /\ \A r \in DOMAIN requests :
             StoresEvent(r) =>
               safety_events' =
                 Append(safety_events,
                   EventOf(r, IF requests[r].safety_result.category
                                   \in FlagCategories
                                THEN requests[r].safety_result.category
                                ELSE "inappropriate_request"))
        /\ (\A r \in DOMAIN requests : ~StoresEvent(r)) =>
             safety_events' = safety_events ]_vars

C16_Witness ==
  \E r \in DOMAIN requests :
    /\ Replied(r)
    /\ requests[r].user_message = TextBoundary
    /\ requests[r].safety_result.category = "therapeutic_boundary"
    /\ requests[r].safety_result.confidence = Pct(60)
    /\ Len(safety_events) = 1
    /\ safety_events[1].flag_type = "inappropriate_request"
    /\ safety_events[1].severity_score = Pct(40)
    /\ safety_events[1].description =
         <<"Therapeutic boundary concerns detected">>

\* ------------------------------------------------------------------ C17
\* role and content of the last twenty stored messages of a session
PriorHistory(session) ==
  LET n == Len(session.messages) IN
    [k \in 1..Min(n, 20) |->
       [role |-> session.messages[n - Min(n, 20) + k].role,
        content |-> session.messages[n - Min(n, 20) + k].content]]

\* slot r takes up a send_message request that passes the checks
Accepts(r) ==
  /\ requests[r] = Idle
  /\ requests'[r].op = "send_message"
  /\ requests'[r].pc = "loaded"

\* C17: send_message calls validate_content exactly once for each message it
\* accepts, on that message, and not at all for a message it rejects; it
\* calls the generative client at most once, only after that one call has
\* returned a safe verdict, and hands it the message as it was sent and the
\* history taken when the session was loaded, which is the role and content
\* of the session's last twenty messages before this one.
C17_GenerateAfterOneSafeAssess ==
  /\ [](\A r \in DOMAIN requests :
          Sending(r) =>
            /\ requests[r].assess_calls =
                 (IF requests[r].pc = "loaded" \/ ~Judged(r) THEN <<>>
                  ELSE <<requests[r].user_message>>)
            /\ (requests[r].pc = "returned" /\ ~Replied(r)) =>
                  requests[r].assess_calls = <<>>
            /\ Replied(r) => Judged(r)
            /\ requests[r].client_calls # <<>> =>
                  /\ Len(requests[r].client_calls) = 1
                  /\ requests[r].assess_calls = <<requests[r].user_message>>
                  /\ Judged(r)
                  /\ requests[r].safety_result.is_safe
                  /\ requests[r].client_calls[1].user_message =
                       requests[r].user_message
                  /\ requests[r].client_calls[1].conversation_history =
                       requests[r].conversation_history)
  /\ [][ \A r \in DOMAIN requests :
           Accepts(r) =>
             requests'[r].conversation_history =
               PriorHistory(sessions[requests'[r].session_id]) ]_vars

C17_Witness ==
  \E r \in DOMAIN requests :
    /\ Sending(r)
    /\ requests[r].pc = "generating"
    /\ requests[r].safety_result.is_safe
    /\ requests[r].assess_calls = <<TextSafe>>
    /\ Len(requests[r].client_calls) = 1
    /\ requests[r].client_calls[1].user_message = TextSafe
    /\ Len(requests[r].client_calls[1].conversation_history) = 20
    /\ Len(sessions[requests[r].session_id].messages)
         = 2 * StoredExchanges + 1

\* ------------------------------------------------------------------ C18
\* C18 as stated: whatever create_session and end_session calls are made,
\* one after the other or concurrently, no user has more than
\* max_sessions_per_user active sessions.
C18_SessionLimit ==
  \A u \in UserIds :
    Cardinality({ id \in DOMAIN sessions :
                    sessions[id].user_id = u /\ sessions[id].status = "active" })
      <= max_sessions_per_user

\* ------------------------------------------------------------------ C21
\* the crisis patterns that match the content, the crisis keywords in it
CrisisPatternHits == CountMatches(CRISIS_PATTERNS, content)

CrisisKeywordHits ==
  Cardinality({ kw \in CRISIS_KEYWORDS : KeywordIn(kw, content) })

\* C21: the verdict of the crisis validator is decided by n, the number of
\* crisis patterns that match plus the number of crisis keywords in the text:
\* n >= 2 gives unsafe, critical, crisis with confidence min(0.9, 0.4+0.15n),
\* n = 1 gives unsafe, warning, crisis, 0.7, and n = 0 gives safe, 0.8.  A
\* phrase that is both a pattern and a keyword ("kill myself") counts twice.
C21_CrisisVerdictByCount ==
  (pc \in {"gather", "done"} /\ invoked # {} /\ IsResult(results[1])) =>
    LET n == CrisisPatternHits + CrisisKeywordHits
        r == results[1] IN
      /\ n >= 2 => /\ ~r.is_safe
                   /\ r.level = CRITICAL
                   /\ r.category = CRISIS
                   /\ r.confidence =
                        (IF 40 + 15 * n < 90 THEN Pct(40 + 15 * n)
                         ELSE Pct(90))
      /\ n = 1 => /\ ~r.is_safe
                  /\ r.level = WARNING
                  /\ r.category = CRISIS
                  /\ r.confidence = Pct(70)
      /\ n = 0 => /\ r.is_safe
                  /\ r.level = SAFE
                  /\ r.category = NoneVal
                  /\ r.confidence = Pct(80)
      /\ (content = <<"kill", SP, "myself">>) =>
            (CrisisPatternHits = 1 /\ CrisisKeywordHits = 1 /\ n = 2)

C21_Witness ==
  /\ pc = "gather"
  /\ content = MsgManyIndicators
  /\ IsResult(results[1])
  /\ CrisisPatternHits = 2
  /\ CrisisKeywordHits = 2
  /\ results[1].level = CRITICAL
  /\ results[1].confidence = Pct(90)

\* ------------------------------------------------------------------ C22
AccidentalContext ==
  \E kw \in { <<"accidentally">>, <<"accident">>, <<"cooking">>,
               <<"shaving">>, <<"working">> } : KeywordIn(kw, content)

SelfHarmPatternHits ==
  CountMatches(SELF_HARM_PATTERNS, content)
    + (IF SelfHarmTerm(content) THEN 1 ELSE 0)

\* C22: the self-harm checker returns safe with confidence 0.9 whenever an
\* accidental-context keyword is present, whatever the patterns match;
\* without one, at least one pattern match gives unsafe Warning SelfHarm
\* 0.8 and no match gives safe 0.9.
C22_AccidentalContextWins ==
  (pc \in {"gather", "done"} /\ invoked # {} /\ IsResult(results[2])) =>
    LET r == results[2] IN
      /\ AccidentalContext =>
            r.is_safe /\ r.level = SAFE /\ r.confidence = Pct(90)
      /\ (~AccidentalContext /\ SelfHarmPatternHits >= 1) =>
            /\ ~r.is_safe
            /\ r.level = WARNING
            /\ r.category = SELF_HARM
            /\ r.confidence = Pct(80)
      /\ (~AccidentalContext /\ SelfHarmPatternHits = 0) =>
            r.is_safe /\ r.level = SAFE /\ r.confidence = Pct(90)

C22_Witness ==
  /\ pc = "gather"
  /\ content = MsgAccidentalCut
  /\ IsResult(results[2])
  /\ AccidentalContext
  /\ SelfHarmPatternHits >= 1
  /\ results[2].is_safe

\* ------------------------------------------------------------------ C23
\* C23: for non-blank content validate_content returns is_safe = TRUE only
\* when each of the four registered validators completed without failure and
\* reported safe; a validator that failed is never counted as safe.
C23_SafeOnlyWhenAllReportedSafe ==
  (Assessed /\ ~Blank(content) /\ verdict.is_safe) =>
    \A i \in 1..4 : IsResult(results[i]) /\ results[i].is_safe

\* ------------------------------------------------------------------ C24
\* the (level, confidence) pairs of the unsafe verdicts of validator i
UnsafePairsOf(i) ==
  CASE i = 1 -> { <<WARNING, Pct(70)>>, <<CRITICAL, Pct(70)>>,
                  <<CRITICAL, Pct(85)>>, <<CRITICAL, Pct(90)>> }
    [] i = 2 -> { <<WARNING, Pct(80)>> }
    [] i = 3 -> { <<CAUTION, Pct(70)>> }
    [] i = 4 -> { <<CAUTION, Pct(60)>> }

\* the unsafe survivors of the finished call whose key is maximal
TopRanked ==
  { i \in UnsafeSurvivors : \A j \in UnsafeSurvivors : RankedLeq(j, i) }

\* C24: no two unsafe verdicts of different validators have the same
\* (level, confidence) pair, so whenever a call has unsafe verdicts exactly
\* one of them is maximal and the selection never falls back on the position.
C24_NoTieAmongUnsafe ==
  /\ \A i, j \in 1..4 :
       i # j => UnsafePairsOf(i) \cap UnsafePairsOf(j) = {}
  /\ pc \in {"gather", "done"} =>
       \A i \in UnsafeSurvivors :
         << results[i].level, results[i].confidence >> \in UnsafePairsOf(i)
  /\ (Assessed /\ UnsafeSurvivors # {}) =>
       /\ Cardinality(TopRanked) = 1
       /\ \A i \in TopRanked :
            /\ verdict.level = results[i].level
            /\ verdict.category = results[i].category
            /\ verdict.suggested_response = results[i].suggested_response

C24_Witness ==
  /\ Assessed
  /\ content = MsgAllFour
  /\ UnsafeSurvivors = 1..4
  /\ TopRanked = {1}
  /\ verdict.category = CRISIS

\* ------------------------------------------------------------------ C25
\* the parts of the aggregate explanation
ExplanationParts ==
  { verdict.explanation[k] : k \in 1..Len(verdict.explanation) }

\* C25: whenever the merge of the registered validators' outcomes is unsafe,
\* the aggregate explanation contains the explanation of the selected
\* most-critical verdict (keeping three explanations never drops it) and the
\* aggregate confidence is at least that verdict's own confidence.
C25_SelectedVerdictIsKept ==
  (Assessed /\ UnsafeSurvivors # {}) =>
    /\ ~verdict.is_safe
    /\ \A i \in TopRanked :
         /\ \A k \in 1..Len(results[i].explanation) :
              results[i].explanation[k] \in ExplanationParts
         /\ results[i].explanation # <<>>
         /\ verdict.confidence >= results[i].confidence

C25_Witness ==
  /\ Assessed
  /\ Cardinality(UnsafeSurvivors) = 4
  /\ Len(verdict.explanation) = 3
  /\ results[4].explanation[1] \notin ExplanationParts
  /\ \A i \in TopRanked : results[i].explanation[1] \in ExplanationParts
  /\ \E i \in TopRanked : verdict.confidence > results[i].confidence

\* ------------------------------------------------------------------ C26
\* the positions of the last ten turns of the conversation
WindowTurns == { k \in DOMAIN messages : k > Len(messages) - 10 }

\* no turn of the window is a user turn with content other than blanks
NoUserTextInWindow ==
  \A k \in WindowTurns :
    ("role" \in DOMAIN messages[k] /\ messages[k].role = "user") =>
      ("content" \in DOMAIN messages[k] => Blank(messages[k].content))

\* C26: when none of the last ten turns of a non-empty conversation is a user
\* turn, or every user turn among them is blank, validate_conversation_context
\* returns is_safe = TRUE, level safe, confidence 1.0 and no validator is
\* invoked, whatever the earlier turns contain.
C26_NoUserTextIsSafe ==
  (messages # <<>> /\ NoUserTextInWindow) =>
    /\ pc = "done"
    /\ invoked = {}
    /\ results = <<>>
    /\ verdict.is_safe
    /\ verdict.level = SAFE
    /\ verdict.confidence = Pct(100)

C26_Witness ==
  /\ pc = "done"
  /\ Len(messages) = 12
  /\ messages[1] = UserKill
  /\ messages[11] = AssistantKill
  /\ messages[12] = UserNoContent
  /\ NoUserTextInWindow
  /\ invoked = {}
  /\ verdict.is_safe
  /\ verdict.confidence = Pct(100)

\* ------------------------------------------------------------------ C27
\* slot r takes up a send_message request and raises at once
Rejects(r) ==
  /\ requests[r] = Idle
  /\ requests'[r] # Idle
  /\ requests'[r].op = "send_message"
  /\ requests'[r].pc = "returned"

\* the request of slot r stores the user message / its reply in this step
StoresUserMessage(r) ==
  /\ Sending(r)
  /\ requests[r].pc = "loaded"
  /\ requests'[r].pc # "loaded"

StoresReply(r) ==
  /\ Sending(r)
  /\ requests[r].pc \in {"intervention", "generating"}
  /\ requests'[r].pc = "returned"

\* this step appends one message of the role and content to the session and
\* raises its message_count by one
AppendsOne(id, role, msg_content) ==
  LET old == sessions[id]
      new == sessions'[id] IN
    /\ Len(new.messages) = Len(old.messages) + 1
    /\ SubSeq(new.messages, 1, Len(old.messages)) = old.messages
    /\ new.messages[Len(new.messages)].role = role
    /\ new.messages[Len(new.messages)].content = msg_content
    /\ new.message_count = old.message_count + 1

\* the messages the request of slot r has stored so far
StoredBy(r) ==
  IF ~Sending(r) THEN 0
  ELSE IF requests[r].pc \in {"violation", "intervention", "generating"}
    THEN 1
  ELSE IF Replied(r) THEN 2
  ELSE 0

\* the accepted send_message requests that have not been handed back yet
InFlight == { r \in DOMAIN requests :
                Sending(r) /\ (requests[r].pc = "returned" => Replied(r)) }

RECURSIVE SumStoredBy(_)
SumStoredBy(R) ==
  IF R = {} THEN 0
  ELSE LET r == CHOOSE x \in R : TRUE
       IN StoredBy(r) + SumStoredBy(R \ {r})

\* C27: a send_message that returns a reply appends exactly two messages to
\* the session, the user message and then one assistant message carrying the
\* reply, and raises message_count by two, whichever of the three paths it
\* takes (intervention, generated reply, fallback); a send_message that
\* raises appends no message and records no safety event.
C27_TwoMessagesPerReply ==
  /\ [] /\ sessions[1].message_count = Len(sessions[1].messages)
        /\ Len(sessions[1].messages) =
             2 * StoredExchanges + 2 * (started - Cardinality(InFlight))
               + SumStoredBy(InFlight)
  /\ [][ /\ \A r \in DOMAIN requests :
              /\ Rejects(r) =>
                   /\ requests'[r].result
                        \in { [error |-> "ValueError"],
                              [error |-> "SessionNotFoundError"] }
                   /\ sessions' = sessions
                   /\ safety_events' = safety_events
              /\ StoresUserMessage(r) =>
                   AppendsOne(requests[r].session_id, "user",
                              requests[r].user_message)
              /\ StoresReply(r) =>
                   /\ "content" \in DOMAIN requests'[r].result
                   /\ AppendsOne(requests[r].session_id, "assistant",
                                 requests'[r].result.content)
         /\ (\A r \in DOMAIN requests :
               ~StoresUserMessage(r) /\ ~StoresReply(r)) =>
              \A id \in DOMAIN sessions :
                /\ sessions'[id].messages = sessions[id].messages
                /\ sessions'[id].message_count = sessions[id].message_count
     ]_vars

C27_Witness ==
  \E r \in DOMAIN requests :
    /\ Replied(r)
    /\ "error" \in DOMAIN requests[r].result
    /\ Len(sessions[1].messages) = 2 * StoredExchanges + 2
    /\ sessions[1].message_count = 2 * StoredExchanges + 2
    /\ sessions[1].messages[2 * StoredExchanges + 1].role = "user"
    /\ sessions[1].messages[2 * StoredExchanges + 1].content
         = requests[r].user_message
    /\ sessions[1].messages[2 * StoredExchanges + 2].role = "assistant"
    /\ sessions[1].messages[2 * StoredExchanges + 2].content
         = requests[r].result.content

\* ------------------------------------------------------------------ C28
\* slot r takes up a send_message or end_session request on a stored session
\* that is not active
TakesUpOnEnded(r) ==
  /\ requests[r] = Idle
  /\ requests'[r] # Idle
  /\ requests'[r].op \in {"send_message", "end_session"}
  /\ requests'[r].session_id \in DOMAIN sessions
  /\ sessions[requests'[r].session_id].status # "active"

\* the end_session request of slot r finishes in this step
EndsNow(r) ==
  /\ requests[r] # Idle
  /\ requests[r].op = "end_session"
  /\ requests[r].pc = "loaded"
  /\ requests'[r].pc = "returned"

\* the request names a user other than the owner of its session
ForeignUser(request) ==
  /\ request.user_id # NoneVal
  /\ request.user_id # sessions[request.session_id].user_id

\* the status of a session changes only from active to completed and only in
\* a step that finishes an end_session on it, and every end_session that
\* finishes leaves its session completed, with or without a summary
StatusOnlyCompletes ==
  /\ \A id \in DOMAIN sessions :
       sessions'[id].status # sessions[id].status =>
         /\ sessions[id].status = "active"
         /\ sessions'[id].status = "completed"
         /\ \E r \in DOMAIN requests :
              EndsNow(r) /\ requests[r].session_id = id
  /\ \A r \in DOMAIN requests :
       EndsNow(r) =>
         /\ sessions'[requests[r].session_id].status = "completed"
         /\ requests'[r].result.status = "completed"
         /\ sessions'[requests[r].session_id].messages
              = sessions[requests[r].session_id].messages

\* C28 as stated: a session's status moves only from ACTIVE to COMPLETED,
\* through end_session, which completes an active session even when the
\* summary fails or is skipped; every send_message and end_session made on a
\* session that is not active raises ValueError and adds no message, and the
\* status never returns to ACTIVE.
C28_EndedRaisesValueError ==
  [][ /\ StatusOnlyCompletes
      /\ \A r \in DOMAIN requests :
           TakesUpOnEnded(r) =>
             /\ requests'[r].pc = "returned"
             /\ requests'[r].result = [error |-> "ValueError"]
             /\ sessions' = sessions
    ]_vars

\* C28, amended: as above, but a send_message or end_session on a session
\* that is not active raises SessionNotFoundError when it names a user other
\* than the session's owner (a blank send_message raises ValueError before
\* the session is looked at), and ValueError otherwise.
C28_EndedRaises ==
  [][ /\ StatusOnlyCompletes
      /\ \A r \in DOMAIN requests :
           TakesUpOnEnded(r) =>
             /\ requests'[r].pc = "returned"
             /\ requests'[r].result =
                  (IF /\ ForeignUser(requests'[r])
                      /\ ~(/\ requests'[r].op = "send_message"
                           /\ Blank(requests'[r].user_message))
                     THEN [error |-> "SessionNotFoundError"]
                     ELSE [error |-> "ValueError"])
             /\ sessions' = sessions
    ]_vars

C28_Witness ==
  /\ sessions[1].status = "completed"
  /\ sessions[1].summary = NoneVal
  /\ sessions[1].message_count <= 5
  /\ Len(sessions[1].messages) = 4
  /\ \E r, q \in DOMAIN requests :
       /\ Sending(r)
       /\ ~Blank(requests[r].user_message)
       /\ requests[r].user_id = NoneVal
       /\ requests[r].result = [error |-> "ValueError"]
       /\ requests[q].op = "end_session"
       /\ requests[q].user_id = "u2"
       /\ requests[q].result = [error |-> "SessionNotFoundError"]

\* ------------------------------------------------------------------ C29
\* the severities of the safety events stored for a session
SeveritiesOf(id) ==
  { safety_events[k].severity_score :
      k \in { j \in DOMAIN safety_events : safety_events[j].session_id = id } }

\* the least of a non-empty set of numbers
Least(S) == CHOOSE x \in S : \A y \in S : x <= y

\* C29: the safety_score of a session starts at 1.0, stays within [0, 1] and
\* never increases; a message assessed safe leaves it as it is, and each
\* message assessed unsafe makes it min(previous safety_score,
\* 1 - confidence of the verdict).
C29_SafetyScoreOnlyFalls ==
  /\ [] \A id \in DOMAIN sessions :
          /\ sessions[id].safety_score >= 0
          /\ sessions[id].safety_score <= Pct(100)
          /\ sessions[id].safety_score = Least({Pct(100)} \cup SeveritiesOf(id))
  /\ [][ /\ \A id \in DOMAIN sessions :
              sessions'[id].safety_score <= sessions[id].safety_score
         /\ \A r \in DOMAIN requests :
              /\ StoresUserMessage(r) =>
                   (requests'[r].pc = "violation"
                      <=> ~requests'[r].safety_result.is_safe)
              /\ StoresEvent(r) =>
                   LET id == requests[r].session_id
                       severity ==
                         Pct(100) - requests[r].safety_result.confidence IN
                     /\ ~requests[r].safety_result.is_safe
                     /\ sessions'[id].safety_score =
                          (IF severity < sessions[id].safety_score
                             THEN severity ELSE sessions[id].safety_score)
         /\ (\A r \in DOMAIN requests : ~StoresEvent(r)) =>
              \A id \in DOMAIN sessions :
                sessions'[id].safety_score = sessions[id].safety_score
     ]_vars

C29_Witness ==
  /\ Len(safety_events) = 2
  /\ safety_events[1].severity_score = Pct(40)
  /\ safety_events[2].severity_score = Pct(90)
  /\ sessions[1].safety_score = Pct(40)
  /\ \E r \in DOMAIN requests : Replied(r) /\ requests[r].result.safety_intervention

\* ------------------------------------------------------------------ C30
\* the create_session request of slot r was turned down for the session limit
LimitReached(r) ==
  /\ requests[r] # Idle
  /\ requests[r].op = "create_session"
  /\ requests[r].pc = "returned"
  /\ requests[r].result = [error |-> "SessionLimitExceededError"]

\* C30: a POST /sessions that is turned down because the user has reached the
\* limit of active sessions is answered with HTTP 429, the status that
\* therapeutic_exception_handler gives to SessionLimitExceededError.
C30_LimitAnswered429 ==
  \A r \in DOMAIN requests :
    LimitReached(r) =>
      /\ therapeutic_exception_handler(requests[r].result).status_code = 429
      /\ requests[r].response.status_code = 429
====
